---- MODULE Spec2Model ----
(***************************************************************************)
(* Model of the CSI driver for Intel RSD (package csirsd, package rsd).    *)
(*                                                                         *)
(* The driver keeps an in-memory registry drv.volumes (name -> Volume),    *)
(* talks to the RSD Redfish API through rsd.Transport, to the local mount  *)
(* tools through Mounter and to the nvme tool through NVMe.  Every handler *)
(* modelled here takes drv.volumesRWL for its whole body, so a handler is  *)
(* one atomic action.  What the collaborators answer is chosen by the      *)
(* environment: each action draws a fault (the step of the handler that    *)
(* fails, or "none") and the data the remote API returns.                  *)
(***************************************************************************)
EXTENDS Integers, Sequences, FiniteSets, TLC

VARIABLES
    volumes,     \* drv.volumes: name -> Volume
    rsdVolumes,  \* the volume resources that exist in the RSD storage service
    attached,    \* RSD volume ids attached to the composed node
    connected,   \* devices for which an NVMe-oF connection is open on the node
    formatted,   \* devices that carry a filesystem
    mounts,      \* the node's mount table, oldest first: <<source, target>>,
                 \* a bind mount with its options: <<source, target, options>>
    last,        \* the last RPC: request, gRPC code, response, collaborator calls
    pager,       \* a ListVolumes client following continuation tokens
    trip,        \* a client walking one volume through its life cycle
    volumesRWL,  \* drv.volumesRWL: 0 when free, else the RPC that holds it
    rpc,         \* the RPCs in flight when the server runs handlers concurrently
    ready,       \* drv.ready
    readyMu,     \* drv.readyMu: 0 when free, else the RPC that holds it
    actionInfo,  \* the RSD node's ActionInfo resources, one per action
    waiter,      \* a call of Node.attachOrDetach, step by step
    nodePaths    \* per volume name: Volume.StagingTargetPath and Volume.TargetPaths

drvVars == <<volumes, rsdVolumes, attached, connected, formatted, mounts, last>>
concVars == <<volumesRWL, rpc, ready, readyMu>>
waitVars == <<actionInfo, waiter>>
vars == <<volumes, rsdVolumes, attached, connected, formatted, mounts, last, pager, trip,
          volumesRWL, rpc, ready, readyMu, actionInfo, waiter, nodePaths>>

----------------------------------------------------------------------------
(* Bounds of the model *)

\* number of distinct volume names the orchestrator uses in Spec
MaxNames == 1
\* number of RPCs the server runs at the same time in SpecConc
MaxRPCs == 2
\* number of distinct volume names the orchestrator uses in SpecList
MaxListNames == 3
\* number of volume resources the storage service can hold
MaxRemote == 2
\* staging directories the orchestrator uses
MaxPaths == 1

----------------------------------------------------------------------------
(* Values *)

\* volume names, listed in the order sort.Strings gives them
NameSeq == <<"pvc-a", "pvc-b", "pvc-c", "pvc-d", "pvc-e">>
Names == {NameSeq[i] : i \in 1..MaxNames}
ListNames == {NameSeq[i] : i \in 1..MaxListNames}

\* the Id of an RSD volume resource, as the storage service assigns it
IdSeq == <<"1", "2", "3", "4", "5">>
RSDIds == {IdSeq[i] : i \in 1..MaxRemote}

\* a nil pointer (*rsd.Volume, *csi.Volume, *endPointInfo, *csi.CapacityRange)
Nil == [nil |-> TRUE]

\* controller.go: Size constants
MB == 1048576
defaultVolumeCapacity == 16 * MB

\* the access mode of a csi.VolumeCapability; NoAccessMode is a capability whose
\* AccessMode pointer is nil
SINGLE_NODE_WRITER == "SINGLE_NODE_WRITER"
MULTI_NODE_MULTI_WRITER == "MULTI_NODE_MULTI_WRITER"
NoAccessMode == "<nil>"

\* gRPC codes; Unknown is what gRPC makes of an error that is no status error,
\* Panic is a nil dereference in the handler, which ends the process
OK == "OK"
InvalidArgument == "InvalidArgument"
NotFound == "NotFound"
AlreadyExists == "AlreadyExists"
Aborted == "Aborted"
Internal == "Internal"
Unknown == "Unknown"
Panic == "Panic"

\* the NQN of the NVMe subsystem that exports an RSD volume, and the device node
\* the kernel gives a connection to it
NqnSeq == <<"nqn.vol-1", "nqn.vol-2", "nqn.vol-3", "nqn.vol-4", "nqn.vol-5">>
DevSeq == <<"/dev/nvme1n1", "/dev/nvme2n1", "/dev/nvme3n1", "/dev/nvme4n1", "/dev/nvme5n1">>
IdIndex(id) == CHOOSE i \in 1..Len(IdSeq) : IdSeq[i] = id
VolumeNQN(id) == NqnSeq[IdIndex(id)]
DeviceOf(id) == DevSeq[IdIndex(id)]
DeviceOfNQN(nqn) == DevSeq[CHOOSE i \in 1..Len(NqnSeq) : NqnSeq[i] = nqn]

\* the RSD node this driver instance serves (-nodeid), and another node
DriverNodeID == "1"
NodeIds == {"", "1", "2"}

PathSeq == <<"/staging-1", "/staging-2", "/staging-3">>
StagingPaths == {PathSeq[i] : i \in 1..MaxPaths}
TargetSeq == <<"/target-1", "/target-2", "/target-3">>
TargetPaths == {TargetSeq[i] : i \in 1..MaxPaths}

\* the VolumeCapability of a node or publish request: none, a mount volume, or
\* one whose access type is not Mount (GetMount() answers nil)
NoCapability == "none"
MountCapability == "mount"
BlockCapability == "block"

----------------------------------------------------------------------------
(* Helpers *)

Range(s) == {s[i] : i \in 1..Len(s)}

\* what a handler returns and what it asked of its collaborators
Reply(op, req, code, resp, calls) ==
    [op |-> op, req |-> req, code |-> code, resp |-> resp, calls |-> calls]

NoResp == [none |-> TRUE]

\* sort.Strings on the names of NameSeq
NameRank(n) == CHOOSE i \in 1..Len(NameSeq) : NameSeq[i] = n
NameLess(a, b) == NameRank(a) < NameRank(b)

RECURSIVE sortStrings(_)
sortStrings(keys) ==
    IF keys = {} THEN <<>>
    ELSE LET least == CHOOSE k \in keys : \A o \in keys \ {k} : NameLess(k, o)
         IN <<least>> \o sortStrings(keys \ {least})

\* strconv.Itoa / strconv.Atoi on strings written as sequences of characters
Digits == <<"0", "1", "2", "3", "4", "5", "6", "7", "8", "9">>
IsDigit(c) == \E d \in 1..10 : Digits[d] = c
DigitVal(c) == (CHOOSE d \in 1..10 : Digits[d] = c) - 1

RECURSIVE natToString(_)
natToString(n) ==
    IF n < 10 THEN <<Digits[n + 1]>>
    ELSE natToString(n \div 10) \o <<Digits[(n % 10) + 1]>>

Itoa(n) == IF n < 0 THEN <<"-">> \o natToString(0 - n) ELSE natToString(n)

RECURSIVE digitsToNat(_)
digitsToNat(s) ==
    IF s = <<>> THEN 0
    ELSE 10 * digitsToNat(SubSeq(s, 1, Len(s) - 1)) + DigitVal(s[Len(s)])

\* [err, val]: an optional sign, then one or more decimal digits
Atoi(s) ==
    LET signed == s # <<>> /\ s[1] \in {"+", "-"}
        body == IF signed THEN Tail(s) ELSE s
    IN IF body = <<>> \/ \E i \in 1..Len(body) : ~IsDigit(body[i])
       THEN [err |-> TRUE, val |-> 0]
       ELSE [err |-> FALSE,
             val |-> IF signed /\ s[1] = "-" THEN 0 - digitsToNat(body)
                     ELSE digitsToNat(body)]

----------------------------------------------------------------------------
(* The RSD API calls a handler makes, as they are logged in last.calls *)

GetStorageServices == "GET /redfish/v1/StorageServices"
GetStorageService == "GET StorageService"
GetVolumes == "GET Volumes"
PostVolumes == "POST Volumes"
GetVolumeCall == "GET Volume"
DeleteVolumeCall == "DELETE Volume"
GetNodes == "GET /redfish/v1/Nodes"
GetActionInfo == "GET ActionInfo"
PostAttach == "POST AttachResource"
PostDetach == "POST DetachResource"
GetEndPointCall == "GET Endpoint"
GetSystem == "GET ComputerSystem"

----------------------------------------------------------------------------
(* driver.go: the registry *)

\* a lookup by name that finds nothing
findNoVolumeByName(name) == Nil

findCSIVolumeByName(name) ==
    IF name \in DOMAIN volumes THEN volumes[name].CSIVolume ELSE Nil

\* a lookup by id that settles for any registered volume
findAnyVol(volumeID) ==
    IF DOMAIN volumes # {} THEN CHOOSE n \in DOMAIN volumes : TRUE ELSE ""

\* the name of the volume with this CSI volume id, "" when there is none
findVolByID(volumeID) ==
    IF \E n \in DOMAIN volumes : volumes[n].CSIVolume.VolumeId = volumeID
    THEN CHOOSE n \in DOMAIN volumes : volumes[n].CSIVolume.VolumeId = volumeID
    ELSE ""

\* the volumes in the order of their ids
listCSIVolumesById ==
    LET held == {volumes[n].CSIVolume : n \in DOMAIN volumes}
        rank(v) == Cardinality({w \in held : IdIndex(w.VolumeId) < IdIndex(v.VolumeId)}) + 1
    IN [i \in 1..Cardinality(held) |-> CHOOSE v \in held : rank(v) = i]

listCSIVolumes ==
    LET keys == sortStrings(DOMAIN volumes)
    IN [i \in 1..Len(keys) |-> volumes[keys[i]].CSIVolume]

\* rsd.GetVolumeCollection(client, 0): [err, calls]
GetVolumeCollection(fault) ==
    CASE fault = "GetStorageServices" ->
            [err |-> TRUE, calls |-> <<GetStorageServices>>]
      [] fault = "GetStorageService" ->
            [err |-> TRUE, calls |-> <<GetStorageServices, GetStorageService>>]
      [] fault = "NoStorageServices" ->
            [err |-> TRUE, calls |-> <<GetStorageServices>>]
      [] fault = "GetVolumes" ->
            [err |-> TRUE, calls |-> <<GetStorageServices, GetStorageService, GetVolumes>>]
      [] OTHER ->
            [err |-> FALSE, calls |-> <<GetStorageServices, GetStorageService, GetVolumes>>]

\* VolumeCollection.NewVolume: POST the capacity, then GET the Location it answers.
\* [err, volume, created, calls]; created tells whether the POST made a resource
NewVolume(capacity, fault, newId) ==
    LET made == [ID |-> newId, CapacityBytes |-> capacity]
    IN CASE fault = "PostVolumes" \/ newId = "" ->
               [err |-> TRUE, volume |-> Nil, created |-> FALSE, calls |-> <<PostVolumes>>]
         [] fault = "NoLocation" ->
               [err |-> TRUE, volume |-> Nil, created |-> TRUE, calls |-> <<PostVolumes>>]
         [] fault = "GetNewVolume" ->
               [err |-> TRUE, volume |-> Nil, created |-> TRUE,
                calls |-> <<PostVolumes, GetVolumeCall>>]
         [] OTHER ->
               [err |-> FALSE, volume |-> made, created |-> TRUE,
                calls |-> <<PostVolumes, GetVolumeCall>>]

NewVolumeRecord(name, rsdVolume) ==
    [Name |-> name,
     CSIVolume |-> [VolumeId |-> rsdVolume.ID, VolumeContext |-> name,
                    CapacityBytes |-> rsdVolume.CapacityBytes],
     RSDVolume |-> rsdVolume,
     EndPoint |-> Nil,
     RSDNodeID |-> "",
     RSDNodeNQN |-> "",
     Device |-> "",
     IsPublished |-> FALSE,
     IsStaged |-> FALSE]

\* a newVolume that registers the volume as soon as the remote create took effect
newVolumeOnceCreated(name, requiredCapacity, fault, newId) ==
    IF name \in DOMAIN volumes
    THEN [err |-> TRUE, csiVolume |-> Nil, volumes |-> volumes,
          rsdVolumes |-> rsdVolumes, calls |-> <<>>]
    ELSE
    LET coll == GetVolumeCollection(fault) IN
    IF coll.err
    THEN [err |-> TRUE, csiVolume |-> Nil, volumes |-> volumes,
          rsdVolumes |-> rsdVolumes, calls |-> coll.calls]
    ELSE
    LET new == NewVolume(requiredCapacity, fault, newId)
        made == [ID |-> newId, CapacityBytes |-> requiredCapacity]
        vol == NewVolumeRecord(name, made)
    IN IF ~new.created
       THEN [err |-> TRUE, csiVolume |-> Nil, volumes |-> volumes,
             rsdVolumes |-> rsdVolumes, calls |-> coll.calls \o new.calls]
       ELSE [err |-> new.err, csiVolume |-> vol.CSIVolume,
             volumes |-> (name :> vol) @@ volumes,
             rsdVolumes |-> rsdVolumes \cup {made}, calls |-> coll.calls \o new.calls]

\* a newVolume that takes the resource back when its re-fetch fails
newVolumeTakingBack(name, requiredCapacity, fault, newId) ==
    IF name \in DOMAIN volumes
    THEN [err |-> TRUE, csiVolume |-> Nil, volumes |-> volumes,
          rsdVolumes |-> rsdVolumes, calls |-> <<>>]
    ELSE
    LET coll == GetVolumeCollection(fault) IN
    IF coll.err
    THEN [err |-> TRUE, csiVolume |-> Nil, volumes |-> volumes,
          rsdVolumes |-> rsdVolumes, calls |-> coll.calls]
    ELSE
    LET new == NewVolume(requiredCapacity, fault, newId)
    IN IF new.err
       THEN [err |-> TRUE, csiVolume |-> Nil, volumes |-> volumes,
             rsdVolumes |-> rsdVolumes, calls |-> coll.calls \o new.calls]
       ELSE LET vol == NewVolumeRecord(name, new.volume)
            IN [err |-> FALSE, csiVolume |-> vol.CSIVolume,
                volumes |-> (name :> vol) @@ volumes,
                rsdVolumes |-> rsdVolumes \cup {[ID |-> newId, CapacityBytes |-> requiredCapacity]},
                calls |-> coll.calls \o new.calls]

\* Driver.newVolume: [err, csiVolume, volumes, rsdVolumes, calls]
newVolume(name, requiredCapacity, fault, newId) ==
    IF name \in DOMAIN volumes
    THEN [err |-> TRUE, csiVolume |-> Nil, volumes |-> volumes,
          rsdVolumes |-> rsdVolumes, calls |-> <<>>]
    ELSE
    LET coll == GetVolumeCollection(fault) IN
    IF coll.err
    THEN [err |-> TRUE, csiVolume |-> Nil, volumes |-> volumes,
          rsdVolumes |-> rsdVolumes, calls |-> coll.calls]
    ELSE
    LET new == NewVolume(requiredCapacity, fault, newId)
        remote == IF new.created
                  THEN rsdVolumes \cup {[ID |-> newId, CapacityBytes |-> requiredCapacity]}
                  ELSE rsdVolumes
    IN IF new.err
       THEN [err |-> TRUE, csiVolume |-> Nil, volumes |-> volumes,
             rsdVolumes |-> remote, calls |-> coll.calls \o new.calls]
       ELSE LET vol == NewVolumeRecord(name, new.volume)
            IN [err |-> FALSE, csiVolume |-> vol.CSIVolume,
                volumes |-> (name :> vol) @@ volumes,
                rsdVolumes |-> remote, calls |-> coll.calls \o new.calls]

----------------------------------------------------------------------------
(* controller.go: CreateVolume, DeleteVolume, ListVolumes *)

validateCapabilities(caps) ==
    \A i \in 1..Len(caps) : caps[i] = SINGLE_NODE_WRITER

\* validateCapabilities reads cap.AccessMode.Mode of each capability in turn and
\* returns at the first unsupported mode: it dereferences a nil AccessMode when
\* no capability before it is unsupported
capabilitiesPanic(caps) ==
    \E i \in 1..Len(caps) :
        /\ caps[i] = NoAccessMode
        /\ \A j \in 1..(i - 1) : caps[j] = SINGLE_NODE_WRITER

\* a capacity in which the required bytes override the limit
getRequiredCapacityRequiredFirst(req) ==
    LET capRange == req.CapacityRange
        afterLimit == IF capRange # Nil /\ capRange.LimitBytes > 0
                      THEN capRange.LimitBytes ELSE defaultVolumeCapacity
    IN IF capRange # Nil /\ capRange.RequiredBytes > 0
       THEN capRange.RequiredBytes ELSE afterLimit

getRequiredCapacity(req) ==
    LET capRange == req.CapacityRange
        afterRequired == IF capRange # Nil /\ capRange.RequiredBytes > 0
                         THEN capRange.RequiredBytes ELSE defaultVolumeCapacity
    IN IF capRange # Nil /\ capRange.LimitBytes > 0
       THEN capRange.LimitBytes ELSE afterRequired

\* the branch for a registered name without its comparison of capacities
CreateExistingAnySize(vol, requiredCapacity) == [code |-> OK, resp |-> [Volume |-> vol]]

\* the branch of CreateVolume for a name that is registered: [code, resp]
CreateExisting(vol, requiredCapacity) ==
    IF vol.CapacityBytes < requiredCapacity
    THEN [code |-> AlreadyExists, resp |-> NoResp]
    ELSE [code |-> OK, resp |-> [Volume |-> vol]]

CreateVolume(req, fault, newId) ==
    LET unchanged(code) ==
            /\ last' = Reply("CreateVolume", req, code, NoResp, <<>>)
            /\ UNCHANGED <<volumes, rsdVolumes, formatted>>
    IN
    /\ UNCHANGED <<attached, connected, mounts>>
    /\ IF req.Name = "" THEN unchanged(InvalidArgument)
       ELSE IF Len(req.VolumeCapabilities) = 0
       THEN unchanged(InvalidArgument)
       ELSE IF capabilitiesPanic(req.VolumeCapabilities)
       THEN unchanged(Panic)
       ELSE IF ~validateCapabilities(req.VolumeCapabilities)
       THEN unchanged(InvalidArgument)
       ELSE
       LET requiredCapacity == getRequiredCapacity(req)
           vol == findCSIVolumeByName(req.Name)
       IN IF vol # Nil
          THEN LET r == CreateExisting(vol, requiredCapacity)
               IN /\ last' = Reply("CreateVolume", req, r.code, r.resp, <<>>)
                  /\ UNCHANGED <<volumes, rsdVolumes, formatted>>
          ELSE LET r == newVolume(req.Name, requiredCapacity, fault, newId)
               IN /\ volumes' = r.volumes
                  /\ rsdVolumes' = r.rsdVolumes
                  \* a new volume resource carries no filesystem
                  /\ formatted' = IF r.rsdVolumes # rsdVolumes
                                  THEN formatted \ {DeviceOf(newId)} ELSE formatted
                  /\ last' = IF r.err
                             THEN Reply("CreateVolume", req, Internal, NoResp, r.calls)
                             ELSE Reply("CreateVolume", req, OK,
                                        [Volume |-> r.csiVolume], r.calls)

\* a deleteVolume that refuses a volume that is published or staged
deleteVolumeUnlessInUse(volumeID, fault) ==
    LET name == findVolByID(volumeID) IN
    IF name = ""
    THEN [code |-> OK, volumes |-> volumes, rsdVolumes |-> rsdVolumes, calls |-> <<>>]
    ELSE IF volumes[name].IsPublished \/ volumes[name].IsStaged
    THEN [code |-> Unknown, volumes |-> volumes, rsdVolumes |-> rsdVolumes, calls |-> <<>>]
    ELSE IF volumes[name].RSDVolume = Nil
    THEN [code |-> Panic, volumes |-> volumes, rsdVolumes |-> rsdVolumes, calls |-> <<>>]
    ELSE [code |-> OK,
          volumes |-> [n \in DOMAIN volumes \ {name} |-> volumes[n]],
          rsdVolumes |-> {v \in rsdVolumes : v.ID # volumes[name].RSDVolume.ID},
          calls |-> <<DeleteVolumeCall>>]

\* Driver.deleteVolume: [code, volumes, rsdVolumes, calls]
deleteVolume(volumeID, fault) ==
    LET name == findVolByID(volumeID) IN
    IF name = ""
    THEN [code |-> OK, volumes |-> volumes, rsdVolumes |-> rsdVolumes, calls |-> <<>>]
    ELSE IF volumes[name].RSDVolume = Nil
    THEN [code |-> Panic, volumes |-> volumes, rsdVolumes |-> rsdVolumes, calls |-> <<>>]
    ELSE IF fault = "DeleteVolume"
    THEN [code |-> Unknown, volumes |-> volumes, rsdVolumes |-> rsdVolumes,
          calls |-> <<DeleteVolumeCall>>]
    ELSE [code |-> OK,
          volumes |-> [n \in DOMAIN volumes \ {name} |-> volumes[n]],
          rsdVolumes |-> {v \in rsdVolumes : v.ID # volumes[name].RSDVolume.ID},
          calls |-> <<DeleteVolumeCall>>]

DeleteVolume(req, fault) ==
    /\ UNCHANGED <<connected, formatted, mounts>>
    /\ IF req.VolumeId = ""
       THEN /\ last' = Reply("DeleteVolume", req, InvalidArgument, NoResp, <<>>)
            /\ UNCHANGED <<volumes, rsdVolumes, attached>>
       ELSE LET r == deleteVolume(req.VolumeId, fault)
            IN /\ volumes' = r.volumes
               /\ rsdVolumes' = r.rsdVolumes
               /\ attached' = attached \cap {v.ID : v \in r.rsdVolumes}
               /\ last' = Reply("DeleteVolume", req, r.code, NoResp, r.calls)

\* the page ListVolumes cuts out of the sorted list: [code, resp]
ListVolumesPage(req, csiVolumes) ==
    LET tok == IF req.StartingToken # <<>> THEN Atoi(req.StartingToken)
               ELSE [err |-> FALSE, val |-> 0]
        startingToken == tok.val
        numVols == Len(csiVolumes)
    IN IF tok.err THEN [code |-> Aborted, resp |-> NoResp]
       ELSE IF startingToken > numVols THEN [code |-> Aborted, resp |-> NoResp]
       ELSE
       LET limited == req.MaxEntries > 0 /\ req.MaxEntries < numVols - startingToken
           numEntries == IF limited THEN req.MaxEntries ELSE numVols - startingToken
           nextToken == IF limited THEN Itoa(startingToken + numEntries) ELSE <<>>
           \* the loop appends volumes[i] for i >= startingToken (0-based) and
           \* stops when it holds numEntries of them
           from == IF startingToken < 0 THEN 1 ELSE startingToken + 1
           upto == IF numEntries <= 0 THEN numVols
                   ELSE IF from + numEntries - 1 < numVols THEN from + numEntries - 1
                   ELSE numVols
       IN [code |-> OK,
           resp |-> [Entries |-> SubSeq(csiVolumes, from, upto), NextToken |-> nextToken]]

ListVolumes(req) ==
    LET r == ListVolumesPage(req, listCSIVolumes)
    IN /\ last' = Reply("ListVolumes", req, r.code, r.resp, <<>>)
       /\ UNCHANGED <<volumes, rsdVolumes, attached, connected, formatted, mounts>>

\* ValidateVolumeCapabilities once findVolByID has returned name: [code, resp]
ValidateVolumeCapabilitiesFound(req, name) ==
    IF req.VolumeId = "" THEN [code |-> InvalidArgument, resp |-> NoResp]
    ELSE IF Len(req.VolumeCapabilities) = 0 THEN [code |-> InvalidArgument, resp |-> NoResp]
    ELSE IF name = "" THEN [code |-> NotFound, resp |-> NoResp]
    ELSE IF \E i \in 1..Len(req.VolumeCapabilities) :
               req.VolumeCapabilities[i] \notin {NoAccessMode, SINGLE_NODE_WRITER}
    THEN [code |-> InvalidArgument, resp |-> [Confirmed |-> Nil]]
    ELSE [code |-> OK,
          resp |-> [Confirmed |-> [VolumeCapabilities |-> req.VolumeCapabilities]]]

\* the handler takes no lock; name is what its walk over drv.volumes came up with
ValidateVolumeCapabilities(req, name) ==
    LET r == ValidateVolumeCapabilitiesFound(req, name)
    IN /\ last' = Reply("ValidateVolumeCapabilities", req, r.code, r.resp, <<>>)
       /\ UNCHANGED <<volumes, rsdVolumes, attached, connected, formatted, mounts>>

----------------------------------------------------------------------------
(* pkg/rsd: endpoints, and the wait before an attach or detach action *)

nodeActionAttempts == 30

ToUpper(str) ==
    CASE str \in {"RoCEv2", "rocev2", "ROCEV2"} -> "ROCEV2"
      [] str \in {"RoCE", "roce", "ROCE"} -> "ROCE"
      [] str \in {"iSCSI", "ISCSI"} -> "ISCSI"
      [] str \in {"NQN", "nqn", "Nqn"} -> "NQN"
      [] str \in {"UUID", "uuid"} -> "UUID"
      [] OTHER -> str

\* EndPoint.GetNQN
GetNQN(ep) ==
    LET hits == {i \in 1..Len(ep.Identifiers) :
                    ToUpper(ep.Identifiers[i].DurableNameFormat) = "NQN"}
    IN IF hits = {} THEN ""
       ELSE ep.Identifiers[CHOOSE i \in hits : \A j \in hits : i <= j].DurableName

\* Node.WaitForAllowed: poll the action's ActionInfo until the resource is among
\* the allowable values.  poll says what the polls answer: the read fails at poll
\* errAt, the resource is listed from poll allowedAt on (0: never).
\* [err, polls]
RECURSIVE WaitForAllowedFrom(_, _, _)
WaitForAllowedFrom(i, poll, times) ==
    IF i > times THEN [err |-> TRUE, polls |-> times]
    ELSE IF poll.errAt = i THEN [err |-> TRUE, polls |-> i]
    ELSE IF poll.allowedAt # 0 /\ poll.allowedAt <= i THEN [err |-> FALSE, polls |-> i]
    ELSE WaitForAllowedFrom(i + 1, poll, times)

WaitForAllowed(poll, times) == WaitForAllowedFrom(1, poll, times)

\* Node.attachOrDetach: [err, acted, calls]
attachOrDetach(poll, fault, action) ==
    LET w == WaitForAllowed(poll, nodeActionAttempts)
        polled == [i \in 1..w.polls |-> GetActionInfo]
    IN IF w.err THEN [err |-> TRUE, acted |-> FALSE, calls |-> polled]
       ELSE IF fault = "Action"
       THEN [err |-> TRUE, acted |-> FALSE, calls |-> Append(polled, action)]
       ELSE [err |-> FALSE, acted |-> TRUE, calls |-> Append(polled, action)]

----------------------------------------------------------------------------
(* pkg/rsd: Node.attachOrDetach step by step, against the ActionInfo resources *)

\* the two actions of a composed node and the ActionInfo resource of each
NodeActions == {PostAttach, PostDetach}
RedfishActionInfo(action) ==
    IF action = PostAttach
    THEN "/redfish/v1/Nodes/1/Actions/AttachResourceActionInfo"
    ELSE "/redfish/v1/Nodes/1/Actions/DetachResourceActionInfo"

\* a member of AllowableValues: a JSON object with an @odata.id, or a JSON
\* value that is no object
Value(id) == [object |-> TRUE, odataID |-> id]
NotAnObject == [object |-> FALSE, odataID |-> ""]

\* what a GET of an ActionInfo resource answers: an error, or the decoded
\* ActionInfo with its Parameters
ActionInfoOf(values) ==
    [err |-> FALSE, Parameters |-> <<[AllowableValues |-> values]>>]
NoParameters == [err |-> FALSE, Parameters |-> <<>>]
Unreadable == [err |-> TRUE, Parameters |-> <<>>]
AllowableLists ==
    {<<>>, <<Value(IdSeq[1])>>, <<Value(IdSeq[1]), Value(IdSeq[2])>>,
     <<Value(IdSeq[1]), NotAnObject>>, <<NotAnObject>>}
ActionInfos == {Unreadable, NoParameters} \cup {ActionInfoOf(v) : v \in AllowableLists}

\* the errors of attachOrDetach
NoError == [kind |-> "", resource |-> "", actionInfo |-> ""]
WaitError(kind, resource, info) ==
    [kind |-> kind, resource |-> resource, actionInfo |-> info]

\* the walk of WaitForAllowed over the AllowableValues of one poll, from the
\* k-th on: "allowed", "absent", or "panic" (the type assertion fails)
RECURSIVE scanValues(_, _, _)
scanValues(values, k, resource) ==
    IF k > Len(values) THEN "absent"
    ELSE IF ~values[k].object THEN "panic"
    ELSE IF values[k].odataID = resource THEN "allowed"
    ELSE scanValues(values, k + 1, resource)

\* one pass of the loop of WaitForAllowed: "error", "panic" (Parameters[0] of
\* an ActionInfo without parameters), "allowed" or "absent"
pollOnce(info, resource) ==
    IF info.err THEN "error"
    ELSE IF Len(info.Parameters) = 0 THEN "panic"
    ELSE scanValues(info.Parameters[1].AllowableValues, 1, resource)

\* attachOrDetach before it is called
NotWaiting ==
    [pc |-> "idle", action |-> "", resource |-> "", i |-> 0, polls |-> 0,
     posts |-> 0, err |-> NoError]

\* attachOrDetach goes on to Node.Action
MayActAnyway(w) == w.pc = "allowed" \/ (w.pc = "returned" /\ w.posts = 0)
MayAct(w) == w.pc = "allowed"

----------------------------------------------------------------------------
(* driver.go: publish and unpublish *)

\* a scan that looks for an IPv4 address in every detail of the RoCE family
\* before it settles for an IPv6 address
findTransportDetailsIPv4First(endPoint) ==
    LET details == endPoint.IPTransportDetails
        usable == {i \in 1..Len(details) :
                      /\ ToUpper(details[i].TransportProtocol) \in {"ROCE", "ROCEV2"}
                      /\ \/ details[i].IPv4Address # ""
                         \/ details[i].IPv6Address # ""}
        v4 == {i \in usable : details[i].IPv4Address # ""}
    IN IF usable = {} THEN Nil
       ELSE IF v4 # {}
       THEN LET d == details[CHOOSE i \in v4 : \A j \in v4 : i <= j]
            IN [ipAddress |-> d.IPv4Address, ipAddressFamily |-> "IPv4",
                ipPort |-> d.Port, transportProtocol |-> "rdma", nqn |-> ""]
       ELSE LET d == details[CHOOSE i \in usable : \A j \in usable : i <= j]
            IN [ipAddress |-> d.IPv6Address, ipAddressFamily |-> "IPv6",
                ipPort |-> d.Port, transportProtocol |-> "rdma", nqn |-> ""]

findTransportDetails(endPoint) ==
    LET details == endPoint.IPTransportDetails
        usable == {i \in 1..Len(details) :
                      /\ ToUpper(details[i].TransportProtocol) \in {"ROCE", "ROCEV2"}
                      /\ \/ details[i].IPv4Address # ""
                         \/ details[i].IPv6Address # ""}
    IN IF usable = {} THEN Nil
       ELSE LET d == details[CHOOSE i \in usable : \A j \in usable : i <= j]
            IN IF d.IPv4Address # ""
               THEN [ipAddress |-> d.IPv4Address, ipAddressFamily |-> "IPv4",
                     ipPort |-> d.Port, transportProtocol |-> "rdma", nqn |-> ""]
               ELSE [ipAddress |-> d.IPv6Address, ipAddressFamily |-> "IPv6",
                     ipPort |-> d.Port, transportProtocol |-> "rdma", nqn |-> ""]

findEndPointInfo(endPoints) ==
    LET found == {i \in 1..Len(endPoints) : findTransportDetails(endPoints[i]) # Nil}
    IN IF found = {} THEN Nil
       ELSE LET first == CHOOSE i \in found : \A j \in found : i <= j
            IN [findTransportDetails(endPoints[first]) EXCEPT
                   !.nqn = GetNQN(endPoints[first])]

\* Driver.getVolumeEndPointInfo: [err, epi, calls]
getVolumeEndPointInfo(endPoints, fault) ==
    LET reads == [i \in 1..Len(endPoints) |-> GetEndPointCall]
    IN IF fault = "GetEndPoints"
       THEN [err |-> TRUE, epi |-> Nil, calls |-> <<GetEndPointCall>>]
       ELSE IF Len(endPoints) = 0 THEN [err |-> TRUE, epi |-> Nil, calls |-> reads]
       ELSE IF findEndPointInfo(endPoints) = Nil
       THEN [err |-> TRUE, epi |-> Nil, calls |-> reads]
       ELSE [err |-> FALSE, epi |-> findEndPointInfo(endPoints), calls |-> reads]

\* Driver.getComputerSystemNQN: [err, nqn, calls]
getComputerSystemNQN(endPoints, fault) ==
    LET reads == [i \in 1..Len(endPoints) |-> GetEndPointCall]
        named == {i \in 1..Len(endPoints) : GetNQN(endPoints[i]) # ""}
    IN IF fault = "GetSystemEndPoints"
       THEN [err |-> TRUE, nqn |-> "", calls |-> <<GetEndPointCall>>]
       ELSE IF Len(endPoints) = 0 THEN [err |-> TRUE, nqn |-> "", calls |-> reads]
       ELSE IF named = {} THEN [err |-> TRUE, nqn |-> "", calls |-> reads]
       ELSE [err |-> FALSE,
             nqn |-> GetNQN(endPoints[CHOOSE i \in named : \A j \in named : i <= j]),
             calls |-> reads]

\* rsd.GetVolume: the volume resource with this Id, nil on any error
GetVolume(id, fault) ==
    IF fault = "GetVolume" \/ ~\E v \in rsdVolumes : v.ID = id THEN Nil
    ELSE CHOOSE v \in rsdVolumes : v.ID = id

GetVolumeCalls == <<GetStorageServices, GetStorageService, GetVolumes, GetVolumeCall>>

\* a result that counts the volume as published once the attach took effect
PublishResultCommitted(code, vol, att, calls) ==
    [code |-> code,
     volume |-> IF att THEN [vol EXCEPT !.IsPublished = TRUE] ELSE vol,
     attach |-> att, calls |-> calls]

\* Driver.publishVolume.  env: what the RSD API answers during this call
\* [fault, poll, endPoints, systemEndPoints].
\* [code, volume, attach, calls]: code is OK, Aborted (an error was returned)
\* or Panic; attach tells whether the attach action was carried out
PublishResult(code, vol, att, calls) ==
    [code |-> code, volume |-> vol, attach |-> att, calls |-> calls]

\* Driver.publishVolume past its check of IsPublished
attachAndResolve(volume, RSDNodeID, env) ==
    LET fault == env.fault
        res(code, vol, att, calls) == PublishResult(code, vol, att, calls)
    IN
    IF fault = "GetNode" THEN res(Aborted, volume, FALSE, <<GetNodes>>)
    ELSE IF volume.RSDVolume = Nil THEN res(Panic, volume, FALSE, <<GetNodes>>)
    ELSE
    LET act == attachOrDetach(env.poll, fault, PostAttach)
        c1 == <<GetNodes>> \o act.calls
    IN
    IF act.err THEN res(Aborted, volume, FALSE, c1)
    ELSE
    LET refetched == GetVolume(volume.RSDVolume.ID, fault)
        v2 == [volume EXCEPT !.RSDVolume = refetched]
        c2 == c1 \o GetVolumeCalls
    IN
    IF refetched = Nil THEN res(Aborted, v2, TRUE, c2)
    ELSE
    LET ep == getVolumeEndPointInfo(env.endPoints, fault)
        v3 == [v2 EXCEPT !.EndPoint = ep.epi]
        c3 == c2 \o ep.calls
    IN
    IF ep.err THEN res(Aborted, v3, TRUE, c3)
    ELSE IF fault = "GetSystem" THEN res(Aborted, v3, TRUE, Append(c3, GetSystem))
    ELSE
    LET sys == getComputerSystemNQN(env.systemEndPoints, fault)
        v4 == [v3 EXCEPT !.RSDNodeNQN = sys.nqn]
        c4 == Append(c3, GetSystem) \o sys.calls
    IN
    IF sys.err THEN res(Aborted, v4, TRUE, c4)
    ELSE res(OK, [v4 EXCEPT !.RSDNodeID = RSDNodeID, !.IsPublished = TRUE], TRUE, c4)

\* publishVolume without its first check
publishVolumeAgain(volume, RSDNodeID, env) == attachAndResolve(volume, RSDNodeID, env)

publishVolume(volume, RSDNodeID, env) ==
    IF volume.IsPublished THEN PublishResult(OK, volume, FALSE, <<>>)
    ELSE attachAndResolve(volume, RSDNodeID, env)

\* a detach that also unstages: the cascade the driver does not perform
DetachedUnstaged(volume) ==
    [volume EXCEPT !.RSDNodeNQN = "", !.RSDNodeID = "", !.IsPublished = FALSE,
                   !.IsStaged = FALSE, !.Device = ""]

\* the record as unpublishVolume leaves it after the detach
Detached(volume) ==
    [volume EXCEPT !.RSDNodeNQN = "", !.RSDNodeID = "", !.IsPublished = FALSE]

\* an unpublishVolume that marks the volume unpublished although the detach failed
unpublishVolumeGivesUp(volume, RSDNodeID, env) ==
    LET fault == env.fault
        res(code, vol, det, calls) ==
            [code |-> code, volume |-> vol, detach |-> det, calls |-> calls]
    IN
    IF ~volume.IsPublished THEN res(OK, volume, FALSE, <<>>)
    ELSE IF fault = "GetNode" THEN res(Aborted, volume, FALSE, <<GetNodes>>)
    ELSE IF volume.RSDVolume = Nil THEN res(Panic, volume, FALSE, <<GetNodes>>)
    ELSE
    LET act == attachOrDetach(env.poll, fault, PostDetach)
        c1 == <<GetNodes>> \o act.calls
    IN
    IF act.err THEN res(Aborted, Detached(volume), FALSE, c1)
    ELSE res(OK, Detached(volume), TRUE, c1)

\* Driver.unpublishVolume: [code, volume, detach, calls]
unpublishVolume(volume, RSDNodeID, env) ==
    LET fault == env.fault
        res(code, vol, det, calls) ==
            [code |-> code, volume |-> vol, detach |-> det, calls |-> calls]
    IN
    IF ~volume.IsPublished THEN res(OK, volume, FALSE, <<>>)
    ELSE IF fault = "GetNode" THEN res(Aborted, volume, FALSE, <<GetNodes>>)
    ELSE IF volume.RSDVolume = Nil THEN res(Panic, volume, FALSE, <<GetNodes>>)
    ELSE
    LET act == attachOrDetach(env.poll, fault, PostDetach)
        c1 == <<GetNodes>> \o act.calls
    IN
    IF act.err THEN res(Aborted, volume, FALSE, c1)
    ELSE res(OK, Detached(volume), TRUE, c1)

----------------------------------------------------------------------------
(* controller.go: ControllerPublishVolume, ControllerUnpublishVolume *)

ControllerPublishVolume(req, env) ==
    LET reply(code, calls) == Reply("ControllerPublishVolume", req, code, NoResp, calls)
        name == findVolByID(req.VolumeId)
    IN
    /\ UNCHANGED <<rsdVolumes, connected, formatted, mounts>>
    /\ IF req.VolumeId = "" \/ req.NodeId = "" \/ req.VolumeCapability = NoCapability
       THEN last' = reply(InvalidArgument, <<>>) /\ UNCHANGED <<volumes, attached>>
       ELSE IF name = ""
       THEN last' = reply(NotFound, <<>>) /\ UNCHANGED <<volumes, attached>>
       ELSE IF DriverNodeID # req.NodeId
       THEN last' = reply(NotFound, <<>>) /\ UNCHANGED <<volumes, attached>>
       ELSE LET r == publishVolume(volumes[name], req.NodeId, env)
            IN /\ volumes' = [volumes EXCEPT ![name] = r.volume]
               /\ attached' = IF r.attach
                              THEN attached \cup {volumes[name].RSDVolume.ID}
                              ELSE attached
               /\ last' = IF r.code = OK
                          THEN Reply("ControllerPublishVolume", req, OK,
                                     [PublishContext |-> name], r.calls)
                          ELSE reply(r.code, r.calls)

\* ControllerUnpublishVolume without its check of the node id
ControllerUnpublishAnyNode(req, env) ==
    LET reply(code, calls) == Reply("ControllerUnpublishVolume", req, code, NoResp, calls)
        name == findVolByID(req.VolumeId)
    IN
    /\ UNCHANGED <<rsdVolumes, connected, formatted, mounts>>
    /\ IF req.VolumeId = "" \/ req.NodeId = ""
       THEN last' = reply(InvalidArgument, <<>>) /\ UNCHANGED <<volumes, attached>>
       ELSE IF name = ""
       THEN last' = reply(NotFound, <<>>) /\ UNCHANGED <<volumes, attached>>
       ELSE LET r == unpublishVolume(volumes[name], req.NodeId, env)
            IN /\ volumes' = [volumes EXCEPT ![name] = r.volume]
               /\ attached' = IF r.detach
                              THEN attached \ {volumes[name].RSDVolume.ID}
                              ELSE attached
               /\ last' = reply(r.code, r.calls)

ControllerUnpublishVolume(req, env) ==
    LET reply(code, calls) == Reply("ControllerUnpublishVolume", req, code, NoResp, calls)
        name == findVolByID(req.VolumeId)
    IN
    /\ UNCHANGED <<rsdVolumes, connected, formatted, mounts>>
    /\ IF req.VolumeId = "" \/ req.NodeId = ""
       THEN last' = reply(InvalidArgument, <<>>) /\ UNCHANGED <<volumes, attached>>
       ELSE IF name = ""
       THEN last' = reply(NotFound, <<>>) /\ UNCHANGED <<volumes, attached>>
       ELSE IF DriverNodeID # req.NodeId
       THEN last' = reply(NotFound, <<>>) /\ UNCHANGED <<volumes, attached>>
       ELSE LET r == unpublishVolume(volumes[name], req.NodeId, env)
            IN /\ volumes' = [volumes EXCEPT ![name] = r.volume]
               /\ attached' = IF r.detach
                              THEN attached \ {volumes[name].RSDVolume.ID}
                              ELSE attached
               /\ last' = reply(r.code, r.calls)

----------------------------------------------------------------------------
(* The Mounter and NVMe collaborators, as the node's state answers them *)

Connect == "nvme connect"
Disconnect == "nvme disconnect"
IsFormattedCall == "IsFormatted"
FormatCall == "Format"
IsMountedCall == "IsMounted"
MountCall == "Mount"
UnmountCall == "Unmount"

\* mounter.IsMounted: findmnt --mountpoint target [--source source]
IsMounted(source, target) ==
    \E i \in 1..Len(mounts) :
        /\ mounts[i][2] = target
        /\ source = "" \/ mounts[i][1] = source

\* mounter.Unmount: umount takes away the mount made last on the target
Unmount(target) ==
    LET on == {i \in 1..Len(mounts) : mounts[i][2] = target}
        top == CHOOSE i \in on : \A j \in on : j <= i
    IN IF on = {} THEN mounts
       ELSE SubSeq(mounts, 1, top - 1) \o SubSeq(mounts, top + 1, Len(mounts))

getFsType(fsType) == IF fsType # "" THEN fsType ELSE "ext4"

----------------------------------------------------------------------------
(* driver.go: nodeStageVolume, nodeUnstageVolume *)

\* [err, volume, connected, formatted, mounts, calls]
StageResult(err, vol, conn, fmt, mnt, calls) ==
    [err |-> err, volume |-> vol, connected |-> conn, formatted |-> fmt,
     mounts |-> mnt, calls |-> calls]

StageUntouched(volume, err) ==
    StageResult(err, volume, connected, formatted, mounts, <<>>)

\* a mounter that finds no filesystem on any device
IsFormattedNever(dev) == FALSE

\* Mounter.IsFormatted
IsFormatted(dev) == dev \in formatted

\* a stage that writes the device on the record as soon as it is connected
connectFormatMountKeepsDevice(volume, fsType, stagingTargetPath, fault) ==
    LET res(err, vol, conn, fmt, mnt, calls) == StageResult(err, vol, conn, fmt, mnt, calls)
        same(err, calls) == res(err, volume, connected, formatted, mounts, calls)
    IN
    IF volume.EndPoint = Nil THEN same(TRUE, <<>>)
    ELSE IF fault = "Connect" \/ volume.EndPoint.nqn = "" THEN same(TRUE, <<Connect>>)
    ELSE
    LET dev == DeviceOfNQN(volume.EndPoint.nqn)
        conn == connected \cup {dev}
        c1 == <<Connect, IsFormattedCall>>
    IN
    IF fault = "IsFormatted" THEN res(TRUE, [volume EXCEPT !.Device = dev], conn, formatted, mounts, c1)
    ELSE
    LET isFormatted == IsFormatted(dev)
        c2 == IF isFormatted THEN c1 ELSE Append(c1, FormatCall)
        fmt == formatted \cup {dev}
    IN
    IF ~isFormatted /\ fault = "Format" THEN res(TRUE, [volume EXCEPT !.Device = dev], conn, formatted, mounts, c2)
    ELSE IF fault = "IsMounted"
    THEN res(TRUE, [volume EXCEPT !.Device = dev], conn, fmt, mounts, Append(c2, IsMountedCall))
    ELSE
    LET isMounted == IsMounted(dev, stagingTargetPath)
        c3 == IF isMounted THEN Append(c2, IsMountedCall)
              ELSE c2 \o <<IsMountedCall, MountCall>>
        mnt == IF isMounted THEN mounts ELSE Append(mounts, <<dev, stagingTargetPath>>)
    IN
    IF ~isMounted /\ fault = "Mount" THEN res(TRUE, [volume EXCEPT !.Device = dev], conn, fmt, mounts, c3)
    ELSE res(FALSE, [volume EXCEPT !.Device = dev, !.IsStaged = TRUE], conn, fmt, mnt, c3)

\* Driver.nodeStageVolume past its checks of IsPublished and IsStaged
connectFormatMount(volume, fsType, stagingTargetPath, fault) ==
    LET res(err, vol, conn, fmt, mnt, calls) == StageResult(err, vol, conn, fmt, mnt, calls)
        same(err, calls) == res(err, volume, connected, formatted, mounts, calls)
    IN
    IF volume.EndPoint = Nil THEN same(TRUE, <<>>)
    ELSE IF fault = "Connect" \/ volume.EndPoint.nqn = "" THEN same(TRUE, <<Connect>>)
    ELSE
    LET dev == DeviceOfNQN(volume.EndPoint.nqn)
        conn == connected \cup {dev}
        c1 == <<Connect, IsFormattedCall>>
    IN
    IF fault = "IsFormatted" THEN res(TRUE, volume, conn, formatted, mounts, c1)
    ELSE
    LET isFormatted == IsFormatted(dev)
        c2 == IF isFormatted THEN c1 ELSE Append(c1, FormatCall)
        fmt == formatted \cup {dev}
    IN
    IF ~isFormatted /\ fault = "Format" THEN res(TRUE, volume, conn, formatted, mounts, c2)
    ELSE IF fault = "IsMounted"
    THEN res(TRUE, volume, conn, fmt, mounts, Append(c2, IsMountedCall))
    ELSE
    LET isMounted == IsMounted(dev, stagingTargetPath)
        c3 == IF isMounted THEN Append(c2, IsMountedCall)
              ELSE c2 \o <<IsMountedCall, MountCall>>
        mnt == IF isMounted THEN mounts ELSE Append(mounts, <<dev, stagingTargetPath>>)
    IN
    IF ~isMounted /\ fault = "Mount" THEN res(TRUE, volume, conn, fmt, mounts, c3)
    ELSE res(FALSE, [volume EXCEPT !.Device = dev, !.IsStaged = TRUE], conn, fmt, mnt, c3)

\* nodeStageVolume without its check of IsPublished
nodeStageVolumeUnpublished(volume, fsType, stagingTargetPath, fault) ==
    IF volume.IsStaged THEN StageUntouched(volume, FALSE)
    ELSE connectFormatMount(volume, fsType, stagingTargetPath, fault)

\* nodeStageVolume without its check of IsStaged
nodeStageVolumeAgain(volume, fsType, stagingTargetPath, fault) ==
    IF ~volume.IsPublished THEN StageUntouched(volume, TRUE)
    ELSE connectFormatMount(volume, fsType, stagingTargetPath, fault)

nodeStageVolume(volume, fsType, stagingTargetPath, fault) ==
    IF ~volume.IsPublished THEN StageUntouched(volume, TRUE)
    ELSE IF volume.IsStaged THEN StageUntouched(volume, FALSE)
    ELSE connectFormatMount(volume, fsType, stagingTargetPath, fault)

\* nodeUnstageVolume that leaves the device path on the record
nodeUnstageVolumeKeepDevice(volume, stagingTargetPath, fault) ==
    LET res(err, vol, conn, mnt, calls) ==
            [err |-> err, volume |-> vol, connected |-> conn, mounts |-> mnt,
             calls |-> calls]
    IN
    IF ~volume.IsStaged THEN res(FALSE, volume, connected, mounts, <<>>)
    ELSE IF fault = "IsMounted" THEN res(TRUE, volume, connected, mounts, <<IsMountedCall>>)
    ELSE
    LET isMounted == IsMounted("", stagingTargetPath)
        c1 == IF isMounted THEN <<IsMountedCall, UnmountCall>> ELSE <<IsMountedCall>>
        mnt == IF isMounted THEN Unmount(stagingTargetPath) ELSE mounts
    IN
    IF isMounted /\ fault = "Unmount" THEN res(TRUE, volume, connected, mounts, c1)
    ELSE IF fault = "Disconnect" \/ volume.Device = ""
    THEN res(TRUE, volume, connected, mnt, Append(c1, Disconnect))
    ELSE res(FALSE, [volume EXCEPT !.IsStaged = FALSE],
             connected \ {volume.Device}, mnt, Append(c1, Disconnect))

\* an unstage that forgets the device although Disconnect failed
nodeUnstageVolumeGivesUp(volume, stagingTargetPath, fault) ==
    LET res(err, vol, conn, mnt, calls) ==
            [err |-> err, volume |-> vol, connected |-> conn, mounts |-> mnt,
             calls |-> calls]
    IN
    IF ~volume.IsStaged THEN res(FALSE, volume, connected, mounts, <<>>)
    ELSE IF fault = "IsMounted" THEN res(TRUE, volume, connected, mounts, <<IsMountedCall>>)
    ELSE
    LET isMounted == IsMounted("", stagingTargetPath)
        c1 == IF isMounted THEN <<IsMountedCall, UnmountCall>> ELSE <<IsMountedCall>>
        mnt == IF isMounted THEN Unmount(stagingTargetPath) ELSE mounts
    IN
    IF isMounted /\ fault = "Unmount" THEN res(TRUE, volume, connected, mounts, c1)
    ELSE IF fault = "Disconnect" \/ volume.Device = ""
    THEN res(TRUE, [volume EXCEPT !.Device = "", !.IsStaged = FALSE],
             connected, mnt, Append(c1, Disconnect))
    ELSE res(FALSE, [volume EXCEPT !.Device = "", !.IsStaged = FALSE],
             connected \ {volume.Device}, mnt, Append(c1, Disconnect))

\* an unstage that does nothing for a volume that is not published
nodeUnstageVolumePublishedOnly(volume, stagingTargetPath, fault) ==
    LET res(err, vol, conn, mnt, calls) ==
            [err |-> err, volume |-> vol, connected |-> conn, mounts |-> mnt,
             calls |-> calls]
    IN
    IF ~volume.IsStaged \/ ~volume.IsPublished
    THEN res(FALSE, volume, connected, mounts, <<>>)
    ELSE IF fault = "IsMounted" THEN res(TRUE, volume, connected, mounts, <<IsMountedCall>>)
    ELSE
    LET isMounted == IsMounted("", stagingTargetPath)
        c1 == IF isMounted THEN <<IsMountedCall, UnmountCall>> ELSE <<IsMountedCall>>
        mnt == IF isMounted THEN Unmount(stagingTargetPath) ELSE mounts
    IN
    IF isMounted /\ fault = "Unmount" THEN res(TRUE, volume, connected, mounts, c1)
    ELSE IF fault = "Disconnect" \/ volume.Device = ""
    THEN res(TRUE, volume, connected, mnt, Append(c1, Disconnect))
    ELSE res(FALSE, [volume EXCEPT !.Device = "", !.IsStaged = FALSE],
             connected \ {volume.Device}, mnt, Append(c1, Disconnect))

\* [err, volume, connected, mounts, calls]
nodeUnstageVolume(volume, stagingTargetPath, fault) ==
    LET res(err, vol, conn, mnt, calls) ==
            [err |-> err, volume |-> vol, connected |-> conn, mounts |-> mnt,
             calls |-> calls]
    IN
    IF ~volume.IsStaged THEN res(FALSE, volume, connected, mounts, <<>>)
    ELSE IF fault = "IsMounted" THEN res(TRUE, volume, connected, mounts, <<IsMountedCall>>)
    ELSE
    LET isMounted == IsMounted("", stagingTargetPath)
        c1 == IF isMounted THEN <<IsMountedCall, UnmountCall>> ELSE <<IsMountedCall>>
        mnt == IF isMounted THEN Unmount(stagingTargetPath) ELSE mounts
    IN
    IF isMounted /\ fault = "Unmount" THEN res(TRUE, volume, connected, mounts, c1)
    ELSE IF fault = "Disconnect" \/ volume.Device = ""
    THEN res(TRUE, volume, connected, mnt, Append(c1, Disconnect))
    ELSE res(FALSE, [volume EXCEPT !.Device = "", !.IsStaged = FALSE],
             connected \ {volume.Device}, mnt, Append(c1, Disconnect))

----------------------------------------------------------------------------
(* node.go: NodeStageVolume, NodeUnstageVolume *)

NodeStageVolume(req, fault) ==
    LET reply(code, calls) == Reply("NodeStageVolume", req, code, NoResp, calls)
        name == findVolByID(req.VolumeId)
        same == UNCHANGED <<volumes, connected, formatted, mounts>>
    IN
    /\ UNCHANGED <<rsdVolumes, attached>>
    /\ IF req.VolumeId = "" \/ req.StagingTargetPath = ""
          \/ req.VolumeCapability = NoCapability
       THEN last' = reply(InvalidArgument, <<>>) /\ same
       ELSE IF name = "" THEN last' = reply(NotFound, <<>>) /\ same
       \* mnt := req.VolumeCapability.GetMount(); mnt.FsType
       ELSE IF req.VolumeCapability # MountCapability
       THEN last' = reply(Panic, <<>>) /\ same
       ELSE LET r == nodeStageVolume(volumes[name], getFsType(req.FsType),
                                     req.StagingTargetPath, fault)
            IN /\ volumes' = [volumes EXCEPT ![name] = r.volume]
               /\ connected' = r.connected
               /\ formatted' = r.formatted
               /\ mounts' = r.mounts
               /\ last' = reply(IF r.err THEN Aborted ELSE OK, r.calls)

NodeUnstageVolume(req, fault) ==
    LET reply(code, calls) == Reply("NodeUnstageVolume", req, code, NoResp, calls)
        name == findVolByID(req.VolumeId)
        same == UNCHANGED <<volumes, connected, mounts>>
    IN
    /\ UNCHANGED <<rsdVolumes, attached, formatted>>
    /\ IF req.VolumeId = "" \/ req.StagingTargetPath = ""
       THEN last' = reply(InvalidArgument, <<>>) /\ same
       ELSE IF name = "" THEN last' = reply(NotFound, <<>>) /\ same
       ELSE LET r == nodeUnstageVolume(volumes[name], req.StagingTargetPath, fault)
            IN /\ volumes' = [volumes EXCEPT ![name] = r.volume]
               /\ connected' = r.connected
               /\ mounts' = r.mounts
               /\ last' = reply(IF r.err THEN Aborted ELSE OK, r.calls)

\* a nodePublishVolume that refuses a volume that is not staged
nodePublishVolumeStagedOnly(volume, fsType, stagingTargetPath, targetPath, mountOpts, fault) ==
    IF ~volume.IsStaged
    THEN [err |-> TRUE, mounts |-> mounts, calls |-> <<>>]
    ELSE IF fault = "IsMounted"
    THEN [err |-> TRUE, mounts |-> mounts, calls |-> <<IsMountedCall>>]
    ELSE IF IsMounted(stagingTargetPath, targetPath)
    THEN [err |-> FALSE, mounts |-> mounts, calls |-> <<IsMountedCall>>]
    ELSE IF fault = "Mount"
    THEN [err |-> TRUE, mounts |-> mounts, calls |-> <<IsMountedCall, MountCall>>]
    ELSE [err |-> FALSE,
          mounts |-> Append(mounts, <<stagingTargetPath, targetPath, mountOpts>>),
          calls |-> <<IsMountedCall, MountCall>>]

\* Driver.nodePublishVolume: [err, mounts, calls]
nodePublishVolume(volume, fsType, stagingTargetPath, targetPath, mountOpts, fault) ==
    IF fault = "IsMounted"
    THEN [err |-> TRUE, mounts |-> mounts, calls |-> <<IsMountedCall>>]
    ELSE IF IsMounted(stagingTargetPath, targetPath)
    THEN [err |-> FALSE, mounts |-> mounts, calls |-> <<IsMountedCall>>]
    ELSE IF fault = "Mount"
    THEN [err |-> TRUE, mounts |-> mounts, calls |-> <<IsMountedCall, MountCall>>]
    ELSE [err |-> FALSE,
          mounts |-> Append(mounts, <<stagingTargetPath, targetPath, mountOpts>>),
          calls |-> <<IsMountedCall, MountCall>>]

\* Driver.nodeUnpublishVolume: [err, mounts, calls]
nodeUnpublishVolume(volume, targetPath, fault) ==
    IF fault = "IsMounted"
    THEN [err |-> TRUE, mounts |-> mounts, calls |-> <<IsMountedCall>>]
    ELSE IF ~IsMounted("", targetPath)
    THEN [err |-> FALSE, mounts |-> mounts, calls |-> <<IsMountedCall>>]
    ELSE IF fault = "Unmount"
    THEN [err |-> TRUE, mounts |-> mounts, calls |-> <<IsMountedCall, UnmountCall>>]
    ELSE [err |-> FALSE, mounts |-> Unmount(targetPath),
          calls |-> <<IsMountedCall, UnmountCall>>]

\* mount options that leave out ro
optionsReadWrite(req) == req.MountFlags \o <<"bind">>

\* the mount options NodePublishVolume puts together from the request
options(req) ==
    req.MountFlags \o <<"bind">> \o (IF req.Readonly THEN <<"ro">> ELSE <<>>)

NodePublishVolume(req, fault) ==
    LET reply(code, calls) == Reply("NodePublishVolume", req, code, NoResp, calls)
        name == findVolByID(req.VolumeId)
    IN
    /\ UNCHANGED <<volumes, rsdVolumes, attached, connected, formatted>>
    /\ IF req.VolumeId = "" \/ req.StagingTargetPath = "" \/ req.TargetPath = ""
          \/ req.VolumeCapability = NoCapability
       THEN last' = reply(InvalidArgument, <<>>) /\ UNCHANGED mounts
       \* mnt := req.VolumeCapability.GetMount(); options := mnt.MountFlags
       ELSE IF req.VolumeCapability # MountCapability
       THEN last' = reply(Panic, <<>>) /\ UNCHANGED mounts
       ELSE IF name = "" THEN last' = reply(NotFound, <<>>) /\ UNCHANGED mounts
       ELSE LET r == nodePublishVolume(volumes[name], getFsType(req.FsType),
                                       req.StagingTargetPath, req.TargetPath,
                                       options(req), fault)
            IN /\ mounts' = r.mounts
               /\ last' = reply(IF r.err THEN Aborted ELSE OK, r.calls)

NodeUnpublishVolume(req, fault) ==
    LET reply(code, calls) == Reply("NodeUnpublishVolume", req, code, NoResp, calls)
        name == findVolByID(req.VolumeId)
    IN
    /\ UNCHANGED <<volumes, rsdVolumes, attached, connected, formatted>>
    /\ IF req.VolumeId = "" \/ req.TargetPath = ""
       THEN last' = reply(InvalidArgument, <<>>) /\ UNCHANGED mounts
       ELSE IF name = "" THEN last' = reply(NotFound, <<>>) /\ UNCHANGED mounts
       ELSE LET r == nodeUnpublishVolume(volumes[name], req.TargetPath, fault)
            IN /\ mounts' = r.mounts
               /\ last' = reply(IF r.err THEN Aborted ELSE OK, r.calls)

----------------------------------------------------------------------------
(* NodeGetVolumeStats, and the paths a Volume keeps for it *)

\* Volume.StagingTargetPath and Volume.TargetPaths of a new record
NoPaths == [StagingTargetPath |-> "", TargetPaths |-> {}]

\* The paths of every record once a handler has answered: a stage that staged
\* the volume records its staging path, an unstage that unstaged it clears it,
\* a successful NodePublishVolume adds its target path to the set and a
\* successful NodeUnpublishVolume removes it; a record that is dropped or new
\* has none.
PathsAfter ==
    [n \in Names |->
        IF n \notin DOMAIN volumes' \/ n \notin DOMAIN volumes THEN NoPaths
        ELSE LET p == nodePaths[n]
                 mine == /\ last'.code = OK
                         /\ last'.op \in {"NodeStageVolume", "NodeUnstageVolume",
                                          "NodePublishVolume", "NodeUnpublishVolume"}
                         /\ last'.req.VolumeId = volumes[n].CSIVolume.VolumeId
             IN CASE mine /\ last'.op = "NodeStageVolume"
                          /\ ~volumes[n].IsStaged /\ volumes'[n].IsStaged ->
                       [p EXCEPT !.StagingTargetPath = last'.req.StagingTargetPath]
                  [] mine /\ last'.op = "NodeUnstageVolume"
                          /\ volumes[n].IsStaged /\ ~volumes'[n].IsStaged ->
                       [p EXCEPT !.StagingTargetPath = ""]
                  [] mine /\ last'.op = "NodePublishVolume" ->
                       [p EXCEPT !.TargetPaths = @ \cup {last'.req.TargetPath}]
                  [] mine /\ last'.op = "NodeUnpublishVolume" ->
                       [p EXCEPT !.TargetPaths = @ \ {last'.req.TargetPath}]
                  [] OTHER -> p]

\* a check of the path that lets every path through
AnyPathOfVolume(paths, volumePath) == TRUE

\* the path is a target path of the volume or its staging path
PathOfVolume(paths, volumePath) ==
    volumePath \in paths.TargetPaths \/ volumePath = paths.StagingTargetPath

NodeGetVolumeStats(req) ==
    LET reply(code, resp) == Reply("NodeGetVolumeStats", req, code, resp, <<>>)
        name == findVolByID(req.VolumeId)
    IN
    /\ UNCHANGED <<volumes, rsdVolumes, attached, connected, formatted, mounts>>
    /\ last' =
          IF req.VolumeId = "" \/ req.VolumePath = "" THEN reply(InvalidArgument, NoResp)
          ELSE IF name = "" THEN reply(NotFound, NoResp)
          ELSE IF ~PathOfVolume(nodePaths[name], req.VolumePath)
          THEN reply(NotFound, NoResp)
          ELSE IF volumes[name].RSDVolume = Nil THEN reply(Panic, NoResp)
          ELSE reply(OK, [Usage |-> <<[Total |-> volumes[name].RSDVolume.CapacityBytes,
                                      Unit |-> "BYTES"]>>])

----------------------------------------------------------------------------
(* What the orchestrator sends and what the environment answers *)

CapabilityLists ==
    {<<>>, <<SINGLE_NODE_WRITER>>, <<MULTI_NODE_MULTI_WRITER>>,
     <<SINGLE_NODE_WRITER, NoAccessMode>>, <<NoAccessMode, MULTI_NODE_MULTI_WRITER>>}

CapacityRanges ==
    {Nil,
     [RequiredBytes |-> 32 * MB, LimitBytes |-> 0],
     [RequiredBytes |-> 8 * MB, LimitBytes |-> 16 * MB]}

CreateFaults == {"none", "GetStorageServices", "GetStorageService", "NoStorageServices",
                 "GetVolumes", "PostVolumes", "NoLocation", "GetNewVolume"}

\* the Id the storage service gives the next volume; "" when it can hold no more
NewIdIn(ids) ==
    LET free == ids \ {v.ID : v \in rsdVolumes}
    IN IF free = {} THEN ""
       ELSE CHOOSE id \in free : \A other \in free : IdIndex(id) <= IdIndex(other)
NewIds == {NewIdIn(RSDIds)}

CreateRequests(names) ==
    [Name : names, VolumeCapabilities : {<<SINGLE_NODE_WRITER>>},
     CapacityRange : CapacityRanges]
    \cup [Name : {""}, VolumeCapabilities : {<<SINGLE_NODE_WRITER>>}, CapacityRange : {Nil}]
    \cup [Name : names, VolumeCapabilities : CapabilityLists, CapacityRange : {Nil}]

\* the answers of the environment matter only to a call that gets as far as asking
Answers(asked, answers, quiet) == IF asked THEN answers ELSE {quiet}

VolumeIds == RSDIds \cup {""}

DeleteRequests == [VolumeId : VolumeIds]
DeleteFaults == {"none", "DeleteVolume"}

AllowedNow == [allowedAt |-> 1, errAt |-> 0]
AllowedLater == [allowedAt |-> 3, errAt |-> 0]
NeverAllowed == [allowedAt |-> 0, errAt |-> 0]
ReadFails == [allowedAt |-> 0, errAt |-> 2]
PollOutcomes == {AllowedNow, AllowedLater, NeverAllowed, ReadFails}

\* endpoint resources as the RSD API describes them
Detail(proto, v4, v6) ==
    [TransportProtocol |-> proto, IPv4Address |-> v4, IPv6Address |-> v6, Port |-> 4420]
Ident(format, name) == [DurableNameFormat |-> format, DurableName |-> name]
EndPointOf(details, identifiers) ==
    [IPTransportDetails |-> details, Identifiers |-> identifiers]

VolumeEndPointLists(id) ==
    LET nqn == IF id = "" THEN "" ELSE VolumeNQN(id)
        iscsi == EndPointOf(<<Detail("iSCSI", "10.0.0.1", "")>>, <<Ident("NQN", nqn)>>)
        both == EndPointOf(<<Detail("RoCEv2", "192.168.1.1", "fe80::1")>>,
                           <<Ident("UUID", "u-1"), Ident("NQN", nqn)>>)
        noName == EndPointOf(<<Detail("RoCEv2", "192.168.1.1", "")>>,
                             <<Ident("UUID", "u-1")>>)
    IN {<<>>, <<iscsi>>, <<iscsi, both>>, <<noName>>}

HostNQN == "nqn.host-1"
SystemEndPointLists ==
    LET named == EndPointOf(<<>>, <<Ident("NQN", HostNQN)>>)
        unnamed == EndPointOf(<<>>, <<Ident("UUID", "u-2")>>)
    IN {<<>>, <<unnamed>>, <<unnamed, named>>}

QuietEnv == [fault |-> "none", poll |-> AllowedNow, endPoints |-> <<>>,
             systemEndPoints |-> <<>>]

PublishFaults == {"GetNode", "Action", "GetVolume", "GetEndPoints", "GetSystem",
                  "GetSystemEndPoints"}

AttachEnvs(id) ==
    LET good == [fault |-> "none", poll |-> AllowedNow,
                 endPoints |-> CHOOSE l \in VolumeEndPointLists(id) : Len(l) = 2,
                 systemEndPoints |-> CHOOSE l \in SystemEndPointLists : Len(l) = 2]
    IN {[good EXCEPT !.fault = f] : f \in PublishFaults}
       \cup {[good EXCEPT !.poll = p] : p \in PollOutcomes}
       \cup {[good EXCEPT !.endPoints = e, !.systemEndPoints = c] :
                e \in VolumeEndPointLists(id), c \in SystemEndPointLists}

DetachEnvs ==
    {[QuietEnv EXCEPT !.fault = f] : f \in {"none", "GetNode", "Action"}}
    \cup {[QuietEnv EXCEPT !.poll = p] : p \in PollOutcomes}

PublishRequests ==
    [VolumeId : VolumeIds, NodeId : NodeIds, VolumeCapability : {MountCapability}]
    \cup [VolumeId : RSDIds, NodeId : {DriverNodeID}, VolumeCapability : {NoCapability}]

UnpublishRequests == [VolumeId : VolumeIds, NodeId : NodeIds]

StageRequests ==
    [VolumeId : VolumeIds, StagingTargetPath : StagingPaths,
     VolumeCapability : {MountCapability}, FsType : {""}]
    \cup [VolumeId : RSDIds, StagingTargetPath : {""},
          VolumeCapability : {MountCapability}, FsType : {""}]
    \cup [VolumeId : RSDIds, StagingTargetPath : StagingPaths,
          VolumeCapability : {NoCapability, BlockCapability}, FsType : {""}]
StageFaults == {"none", "Connect", "IsFormatted", "Format", "IsMounted", "Mount"}

UnstageRequests ==
    [VolumeId : VolumeIds, StagingTargetPath : StagingPaths]
    \cup [VolumeId : RSDIds, StagingTargetPath : {""}]
UnstageFaults == {"none", "IsMounted", "Unmount", "Disconnect"}

NodePublishRequests ==
    [VolumeId : RSDIds, StagingTargetPath : StagingPaths, TargetPath : TargetPaths,
     VolumeCapability : {MountCapability}, FsType : {""},
     MountFlags : {<<>>, <<"noatime">>}, Readonly : BOOLEAN]
    \cup [VolumeId : VolumeIds, StagingTargetPath : StagingPaths \cup {""},
          TargetPath : TargetPaths \cup {""},
          VolumeCapability : {MountCapability}, FsType : {""},
          MountFlags : {<<>>}, Readonly : {FALSE}]
    \cup [VolumeId : RSDIds, StagingTargetPath : StagingPaths, TargetPath : TargetPaths,
          VolumeCapability : {NoCapability, BlockCapability}, FsType : {""},
          MountFlags : {<<>>}, Readonly : {FALSE}]
NodePublishFaults == {"none", "IsMounted", "Mount"}

NodeUnpublishRequests == [VolumeId : VolumeIds, TargetPath : TargetPaths \cup {""}]
NodeUnpublishFaults == {"none", "IsMounted", "Unmount"}

StatsRequests ==
    [VolumeId : VolumeIds, VolumePath : StagingPaths \cup TargetPaths \cup {"", "/elsewhere"}]

ListRequests ==
    [StartingToken : {<<>>, <<"0">>, <<"1">>, <<"7">>, <<"-", "1">>, <<"x">>},
     MaxEntries : {0 - 1, 0, 1, 2}]

Registered(volumeId) == volumeId # "" /\ findVolByID(volumeId) # ""

\* the requests that get past validation and lookup, and so reach the environment
CreateAsks(req) ==
    /\ req.Name # ""
    /\ req.Name \notin DOMAIN volumes
    /\ req.VolumeCapabilities = <<SINGLE_NODE_WRITER>>
PublishAsks(req) ==
    /\ Registered(req.VolumeId)
    /\ req.NodeId = DriverNodeID
    /\ req.VolumeCapability # NoCapability
UnpublishAsks(req) == Registered(req.VolumeId) /\ req.NodeId = DriverNodeID
StageAsks(req) ==
    /\ Registered(req.VolumeId)
    /\ req.StagingTargetPath # ""
    /\ req.VolumeCapability = MountCapability
UnstageAsks(req) == Registered(req.VolumeId) /\ req.StagingTargetPath # ""

----------------------------------------------------------------------------
(* The driver serving an orchestrator *)

\* a handler that dereferenced nil has ended the process
Running == last.code # Panic

NoVolumes == [n \in {} |-> Nil]
Idle == [state |-> "idle"]
RPCs == 1..MaxRPCs

\* How far the calls made so far have come through the life of one volume, each
\* call succeeding and nothing else called in between:
\* created, published, staged, unstaged, unpublished, deleted.
TripOrder == <<"created", "published", "staged", "unstaged", "unpublished", "deleted">>
TripCalls == <<"CreateVolume", "ControllerPublishVolume", "NodeStageVolume",
               "NodeUnstageVolume", "ControllerUnpublishVolume", "DeleteVolume">>
TripIndex(state) == CHOOSE i \in 1..Len(TripOrder) : TripOrder[i] = state

TripNext(t, reply) ==
    IF reply.op = "CreateVolume" /\ reply.code = OK /\ reply.calls # <<>>
    THEN [state |-> "created", id |-> reply.resp.Volume.VolumeId]
    ELSE IF /\ t.state \in Range(TripOrder) \ {"deleted"}
            /\ reply.op = TripCalls[TripIndex(t.state) + 1]
            /\ reply.code = OK
            /\ reply.req.VolumeId = t.id
    THEN [state |-> TripOrder[TripIndex(t.state) + 1], id |-> t.id]
    ELSE Idle

\* the driver as NewDriver makes it, its ready flag aside
InitDriver ==
    /\ volumes = NoVolumes
    /\ rsdVolumes = {}
    /\ attached = {}
    /\ connected = {}
    /\ formatted = {}
    /\ mounts = <<>>
    /\ last = Reply("NewDriver", Nil, OK, NoResp, <<>>)
    /\ pager = Idle
    /\ trip = Idle
    /\ volumesRWL = 0
    /\ rpc = [t \in RPCs |-> Idle]
    /\ readyMu = 0
    /\ actionInfo = [a \in NodeActions |-> ActionInfoOf(<<>>)]
    /\ waiter = NotWaiting
    /\ nodePaths = [n \in Names |-> NoPaths]

\* the driver serving: Run has set the ready flag
Init == InitDriver /\ ready = TRUE

\* the driver as Run or a test of Probe starts it, ready or not
InitAnyReady == InitDriver /\ ready \in BOOLEAN

DoCreateVolume ==
    /\ Running
    /\ \E req \in CreateRequests(Names) :
       \E fault \in Answers(CreateAsks(req), CreateFaults, "none"), newId \in NewIds :
           CreateVolume(req, fault, newId)
    /\ trip' = TripNext(trip, last')
    /\ UNCHANGED <<pager, concVars, waitVars, nodePaths>>

DoDeleteVolume ==
    /\ Running
    /\ \E req \in DeleteRequests :
       \E fault \in Answers(Registered(req.VolumeId), DeleteFaults, "none") :
           DeleteVolume(req, fault)
    /\ trip' = TripNext(trip, last')
    /\ UNCHANGED <<pager, concVars, waitVars, nodePaths>>

DoControllerPublishVolume ==
    /\ Running
    /\ \E req \in PublishRequests :
       \E env \in Answers(PublishAsks(req), AttachEnvs(req.VolumeId), QuietEnv) :
           ControllerPublishVolume(req, env)
    /\ trip' = TripNext(trip, last')
    /\ UNCHANGED <<pager, concVars, waitVars, nodePaths>>

DoControllerUnpublishVolume ==
    /\ Running
    /\ \E req \in UnpublishRequests :
       \E env \in Answers(UnpublishAsks(req), DetachEnvs, QuietEnv) :
           ControllerUnpublishVolume(req, env)
    /\ trip' = TripNext(trip, last')
    /\ UNCHANGED <<pager, concVars, waitVars, nodePaths>>

DoNodeStageVolume ==
    /\ Running
    /\ \E req \in StageRequests :
       \E fault \in Answers(StageAsks(req), StageFaults, "none") :
           NodeStageVolume(req, fault)
    /\ trip' = TripNext(trip, last')
    /\ UNCHANGED <<pager, concVars, waitVars, nodePaths>>

DoNodeUnstageVolume ==
    /\ Running
    /\ \E req \in UnstageRequests :
       \E fault \in Answers(UnstageAsks(req), UnstageFaults, "none") :
           NodeUnstageVolume(req, fault)
    /\ trip' = TripNext(trip, last')
    /\ UNCHANGED <<pager, concVars, waitVars, nodePaths>>

Next ==
    \/ DoCreateVolume
    \/ DoDeleteVolume
    \/ DoControllerPublishVolume
    \/ DoControllerUnpublishVolume
    \/ DoNodeStageVolume
    \/ DoNodeUnstageVolume

Spec == Init /\ [][Next]_vars

----------------------------------------------------------------------------
(* The driver serving a client that lists the volumes page by page *)

ListIds == {IdSeq[i] : i \in 1..MaxListNames}

ListCreateRequests ==
    [Name : ListNames, VolumeCapabilities : {<<SINGLE_NODE_WRITER>>}, CapacityRange : {Nil}]

\* what the client holds after a page: the entries of all pages so far, the token
\* to go on with, and what the first page looked like
PagerAfter(p, reply) ==
    IF reply.code # OK THEN [state |-> "failed"]
    ELSE [state |-> "paging",
          max |-> p.max,
          got |-> p.got \o reply.resp.Entries,
          token |-> reply.resp.NextToken,
          firstLen |-> IF p.pages = 0 THEN Len(reply.resp.Entries) ELSE p.firstLen,
          firstToken |-> IF p.pages = 0 THEN reply.resp.NextToken ELSE p.firstToken,
          pages |-> p.pages + 1]

ListCreate ==
    /\ Running
    /\ \E req \in ListCreateRequests :
       \E fault \in Answers(CreateAsks(req), {"none", "PostVolumes"}, "none") :
           CreateVolume(req, fault, NewIdIn(ListIds))
    /\ pager' = IF volumes' = volumes THEN pager ELSE Idle
    /\ UNCHANGED <<trip, concVars, waitVars, nodePaths>>

ListDelete ==
    /\ Running
    /\ \E req \in [VolumeId : ListIds] : DeleteVolume(req, "none")
    /\ pager' = IF volumes' = volumes THEN pager ELSE Idle
    /\ UNCHANGED <<trip, concVars, waitVars, nodePaths>>

ListAny ==
    /\ Running
    /\ \E req \in ListRequests : ListVolumes(req)
    /\ UNCHANGED <<pager, trip, concVars, waitVars, nodePaths>>

PageFirst ==
    /\ Running
    /\ \E m \in 1..MaxListNames :
           /\ ListVolumes([StartingToken |-> <<>>, MaxEntries |-> m])
           /\ pager' = PagerAfter([max |-> m, got |-> <<>>, pages |-> 0], last')
    /\ UNCHANGED <<trip, concVars, waitVars, nodePaths>>

PageNext ==
    /\ Running
    /\ pager.state = "paging"
    /\ pager.token # <<>>
    /\ ListVolumes([StartingToken |-> pager.token, MaxEntries |-> pager.max])
    /\ pager' = PagerAfter(pager, last')
    /\ UNCHANGED <<trip, concVars, waitVars, nodePaths>>

NextList ==
    \/ ListCreate
    \/ ListDelete
    \/ ListAny
    \/ PageFirst
    \/ PageNext

SpecList == Init /\ [][NextList]_vars

----------------------------------------------------------------------------
(* The driver serving RPCs concurrently: the gRPC server runs each handler in
   a goroutine of its own. A handler checks its arguments, takes volumesRWL,
   works on the registry and releases the lock as it returns (defer). The
   requests are well-formed and the environment answers without faults. *)

ConcIds == {IdSeq[1]}

ConcCalls ==
    {[op |-> "CreateVolume", req |-> r] :
        r \in [Name : Names, VolumeCapabilities : {<<SINGLE_NODE_WRITER>>},
               CapacityRange : {Nil}]}
    \cup {[op |-> "DeleteVolume", req |-> r] : r \in [VolumeId : ConcIds]}
    \cup {[op |-> "ListVolumes", req |-> r] :
             r \in [StartingToken : {<<>>}, MaxEntries : {0}]}
    \cup {[op |-> "ValidateVolumeCapabilities", req |-> r] :
             r \in [VolumeId : ConcIds, VolumeCapabilities : {<<SINGLE_NODE_WRITER>>}]}
    \cup {[op |-> "ControllerPublishVolume", req |-> r] :
             r \in [VolumeId : ConcIds, NodeId : {DriverNodeID},
                    VolumeCapability : {MountCapability}]}
    \cup {[op |-> "ControllerUnpublishVolume", req |-> r] :
             r \in [VolumeId : ConcIds, NodeId : {DriverNodeID}]}
    \cup {[op |-> "NodeStageVolume", req |-> r] :
             r \in [VolumeId : ConcIds, StagingTargetPath : StagingPaths,
                    VolumeCapability : {MountCapability}, FsType : {""}]}
    \cup {[op |-> "NodeUnstageVolume", req |-> r] :
             r \in [VolumeId : ConcIds, StagingTargetPath : StagingPaths]}
    \cup {[op |-> "Probe", req |-> Nil]}

\* the environment of a publish in which every remote step succeeds
AttachSucceeds(id) ==
    CHOOSE e \in AttachEnvs(id) :
        /\ e.fault = "none" /\ e.poll = AllowedNow
        /\ Len(e.endPoints) = 2 /\ Len(e.systemEndPoints) = 2

\* a Probe that takes volumesRWL like the volume operations
LockingProbeToo(op) == op # "ValidateVolumeCapabilities"

\* the handlers that take volumesRWL
Locking(op) == op \notin {"ValidateVolumeCapabilities", "Probe"}

\* the request arrives and passes the checks of its arguments
RPCCall(t) ==
    /\ Running
    /\ rpc[t].state = "idle"
    /\ \E c \in ConcCalls : rpc' = [rpc EXCEPT ![t] = [state |-> "called", call |-> c]]
    /\ UNCHANGED <<nodePaths, drvVars, pager, trip, waitVars, volumesRWL, ready, readyMu>>

\* drv.volumesRWL.Lock()
Lock(t) ==
    /\ Running
    /\ rpc[t].state = "called"
    /\ Locking(rpc[t].call.op)
    /\ volumesRWL = 0
    /\ volumesRWL' = t
    /\ rpc' = [rpc EXCEPT ![t].state = "locked"]
    /\ UNCHANGED <<nodePaths, drvVars, pager, trip, waitVars, ready, readyMu>>

\* the rest of the handler, from its first look at the registry to its return,
\* where the deferred Unlock runs; a walk over drv.volumes that another RPC has
\* under way meanwhile races with a change of the map
Serve(t) ==
    /\ Running
    /\ rpc[t].state = "locked"
    /\ LET op == rpc[t].call.op
           req == rpc[t].call.req
       IN \/ op = "CreateVolume" /\ CreateVolume(req, "none", NewIdIn(RSDIds))
          \/ op = "DeleteVolume" /\ DeleteVolume(req, "none")
          \/ op = "ListVolumes" /\ ListVolumes(req)
          \/ op = "ControllerPublishVolume"
             /\ ControllerPublishVolume(req, AttachSucceeds(req.VolumeId))
          \/ op = "ControllerUnpublishVolume" /\ ControllerUnpublishVolume(req, QuietEnv)
          \/ op = "NodeStageVolume" /\ NodeStageVolume(req, "none")
          \/ op = "NodeUnstageVolume" /\ NodeUnstageVolume(req, "none")
    /\ volumesRWL' = 0
    /\ rpc' = [u \in RPCs |->
                  IF u = t THEN Idle
                  ELSE IF rpc[u].state = "reading" /\ volumes' # volumes
                  THEN [rpc[u] EXCEPT !.raced = TRUE]
                  ELSE rpc[u]]
    /\ UNCHANGED <<nodePaths, pager, trip, waitVars, ready, readyMu>>

\* ValidateVolumeCapabilities enters findVolByID and starts walking drv.volumes
BeginFind(t) ==
    /\ Running
    /\ rpc[t].state = "called"
    /\ rpc[t].call.op = "ValidateVolumeCapabilities"
    /\ ~Locking(rpc[t].call.op)
    /\ rpc' = [rpc EXCEPT ![t] = [state |-> "reading", call |-> rpc[t].call,
                                  found |-> findVolByID(rpc[t].call.req.VolumeId),
                                  raced |-> FALSE]]
    /\ UNCHANGED <<nodePaths, drvVars, pager, trip, waitVars, volumesRWL, ready, readyMu>>

\* findVolByID returns and the handler replies. A walk that raced with a write
\* of the map may have seen the map as it was or as it is now, or the Go
\* runtime ends the process (concurrent map iteration and map write).
ValidateReturn(t) ==
    /\ Running
    /\ rpc[t].state = "reading"
    /\ LET req == rpc[t].call.req
       IN \/ ValidateVolumeCapabilities(req, findVolByID(req.VolumeId))
          \/ rpc[t].raced /\ ValidateVolumeCapabilities(req, rpc[t].found)
          \/ /\ rpc[t].raced
             /\ last' = Reply("ValidateVolumeCapabilities", req, Panic, NoResp, <<>>)
             /\ UNCHANGED <<volumes, rsdVolumes, attached, connected, formatted, mounts>>
    /\ rpc' = [rpc EXCEPT ![t] = Idle]
    /\ UNCHANGED <<nodePaths, pager, trip, waitVars, volumesRWL, ready, readyMu>>

\* Probe: drv.readyMu.Lock()
ProbeLock(t) ==
    /\ Running
    /\ rpc[t].state = "called"
    /\ rpc[t].call.op = "Probe"
    /\ ~Locking(rpc[t].call.op)
    /\ readyMu = 0
    /\ readyMu' = t
    /\ rpc' = [rpc EXCEPT ![t].state = "probing"]
    /\ UNCHANGED <<nodePaths, drvVars, pager, trip, waitVars, volumesRWL, ready>>

\* Probe reads drv.ready, replies and releases readyMu as it returns
ProbeReturn(t) ==
    /\ Running
    /\ rpc[t].state = "probing"
    /\ last' = Reply("Probe", rpc[t].call.req, OK, [Ready |-> ready], <<>>)
    /\ readyMu' = 0
    /\ rpc' = [rpc EXCEPT ![t] = Idle]
    /\ UNCHANGED <<volumes, rsdVolumes, attached, connected, formatted, mounts,
                   pager, trip, waitVars, nodePaths, volumesRWL, ready>>

NextConc ==
    \E t \in RPCs :
        \/ RPCCall(t)
        \/ Lock(t)
        \/ Serve(t)
        \/ BeginFind(t)
        \/ ValidateReturn(t)
        \/ ProbeLock(t)
        \/ ProbeReturn(t)

SpecConc == Init /\ [][NextConc]_vars

\* The same server when nothing is promised about the volume operations (a
\* handler may hold volumesRWL for as long as the RSD API keeps it waiting, or
\* for ever), while a Probe that can take a step takes it: the goroutine of a
\* handler that is not blocked runs, and sync.Mutex hands readyMu to a waiter
\* that has waited long enough (starvation mode).
SpecProbe ==
    /\ InitAnyReady
    /\ [][NextConc]_vars
    /\ \A t \in RPCs : SF_vars(ProbeLock(t)) /\ WF_vars(ProbeReturn(t))

----------------------------------------------------------------------------
(* The driver serving an orchestrator that also publishes volumes on the node.
   The RSD API, the NVMe connection and the staging mounts answer without
   faults; the bind mounts of NodePublishVolume and NodeUnpublishVolume may
   fail. The requests are those of Spec, malformed ones included. *)

QuietCreateVolume ==
    /\ Running
    /\ \E req \in CreateRequests(Names) : CreateVolume(req, "none", NewIdIn(RSDIds))
    /\ nodePaths' = PathsAfter
    /\ UNCHANGED <<pager, trip, concVars, waitVars>>

QuietDeleteVolume ==
    /\ Running
    /\ \E req \in DeleteRequests : DeleteVolume(req, "none")
    /\ nodePaths' = PathsAfter
    /\ UNCHANGED <<pager, trip, concVars, waitVars>>

QuietControllerPublishVolume ==
    /\ Running
    /\ \E req \in PublishRequests : ControllerPublishVolume(req, AttachSucceeds(req.VolumeId))
    /\ nodePaths' = PathsAfter
    /\ UNCHANGED <<pager, trip, concVars, waitVars>>

QuietControllerUnpublishVolume ==
    /\ Running
    /\ \E req \in UnpublishRequests : ControllerUnpublishVolume(req, QuietEnv)
    /\ nodePaths' = PathsAfter
    /\ UNCHANGED <<pager, trip, concVars, waitVars>>

QuietNodeStageVolume ==
    /\ Running
    /\ \E req \in StageRequests : NodeStageVolume(req, "none")
    /\ nodePaths' = PathsAfter
    /\ UNCHANGED <<pager, trip, concVars, waitVars>>

QuietNodeUnstageVolume ==
    /\ Running
    /\ \E req \in UnstageRequests : NodeUnstageVolume(req, "none")
    /\ nodePaths' = PathsAfter
    /\ UNCHANGED <<pager, trip, concVars, waitVars>>

DoNodePublishVolume ==
    /\ Running
    /\ \E req \in NodePublishRequests, fault \in NodePublishFaults :
           NodePublishVolume(req, fault)
    /\ nodePaths' = PathsAfter
    /\ UNCHANGED <<pager, trip, concVars, waitVars>>

DoNodeUnpublishVolume ==
    /\ Running
    /\ \E req \in NodeUnpublishRequests, fault \in NodeUnpublishFaults :
           NodeUnpublishVolume(req, fault)
    /\ nodePaths' = PathsAfter
    /\ UNCHANGED <<pager, trip, concVars, waitVars>>

DoNodeGetVolumeStats ==
    /\ Running
    /\ \E req \in StatsRequests : NodeGetVolumeStats(req)
    /\ UNCHANGED <<pager, trip, concVars, waitVars, nodePaths>>

NextNode ==
    \/ QuietCreateVolume
    \/ QuietDeleteVolume
    \/ QuietControllerPublishVolume
    \/ QuietControllerUnpublishVolume
    \/ QuietNodeStageVolume
    \/ QuietNodeUnstageVolume
    \/ DoNodePublishVolume
    \/ DoNodeUnpublishVolume
    \/ DoNodeGetVolumeStats

SpecNode == Init /\ [][NextNode]_vars

----------------------------------------------------------------------------
(* SpecReconcile: a caller that publishes, sees publishes fail, and retries
   ControllerPublishVolume and ControllerUnpublishVolume against an RSD whose
   attach ActionInfo lists the resources that are not attached and whose detach
   ActionInfo lists the attached ones *)

AttachPoll(id) == IF id \in attached THEN NeverAllowed ELSE AllowedNow
DetachPoll(id) == IF id \in attached THEN AllowedNow ELSE NeverAllowed

ReconcileRequests ==
    [VolumeId : RSDIds, NodeId : {DriverNodeID}, VolumeCapability : {MountCapability}]

\* the volumes the caller works with are created by well-formed calls
ReconcileCreate ==
    /\ Running
    /\ \E req \in {r \in CreateRequests(Names) :
                      r.Name # "" /\ r.VolumeCapabilities = <<SINGLE_NODE_WRITER>>} :
          CreateVolume(req, "none", NewIdIn(RSDIds))
    /\ UNCHANGED <<pager, trip, concVars, waitVars, nodePaths>>

\* a publish during which a remote call fails
FailingPublish ==
    /\ Running
    /\ \E req \in ReconcileRequests, fault \in PublishFaults :
       \E env \in {[AttachSucceeds(req.VolumeId) EXCEPT
                       !.fault = fault, !.poll = AttachPoll(req.VolumeId)]} :
          ControllerPublishVolume(req, env)
    /\ UNCHANGED <<pager, trip, concVars, waitVars, nodePaths>>

\* a publish retried when the remote calls no longer fail
RetryPublish ==
    /\ Running
    /\ \E req \in ReconcileRequests :
       \E env \in {[AttachSucceeds(req.VolumeId) EXCEPT
                       !.poll = AttachPoll(req.VolumeId)]} :
          ControllerPublishVolume(req, env)
    /\ UNCHANGED <<pager, trip, concVars, waitVars, nodePaths>>

\* an unpublish when the remote calls no longer fail
RetryUnpublish ==
    /\ Running
    /\ \E req \in [VolumeId : RSDIds, NodeId : {DriverNodeID}] :
       \E env \in {[QuietEnv EXCEPT !.poll = DetachPoll(req.VolumeId)]} :
          ControllerUnpublishVolume(req, env)
    /\ UNCHANGED <<pager, trip, concVars, waitVars, nodePaths>>

NextReconcile ==
    \/ ReconcileCreate
    \/ QuietDeleteVolume
    \/ FailingPublish
    \/ RetryPublish
    \/ RetryUnpublish

\* the caller keeps retrying both calls
SpecReconcile ==
    /\ Init
    /\ [][NextReconcile]_vars
    /\ WF_vars(RetryPublish) /\ WF_vars(RetryUnpublish)

----------------------------------------------------------------------------
(* SpecResolve: publishes of volumes whose endpoints the RSD describes in many
   ways; every other remote call succeeds *)

\* the endpoint lists of a volume: endpoints of another fabric, without an
\* address, with one address family or both, in one detail or several
ResolveEndPointLists(id) ==
    LET ep(details) == EndPointOf(details, <<Ident("NQN", VolumeNQN(id))>>)
        iscsi == ep(<<Detail("iSCSI", "10.0.0.1", "")>>)
        bare == ep(<<Detail("RoCEv2", "", "")>>)
        both == ep(<<Detail("RoCEv2", "192.168.1.1", "fe80::1")>>)
        v4 == ep(<<Detail("ROCE", "192.168.1.2", "")>>)
        v6 == ep(<<Detail("RoCE", "", "fe80::2")>>)
        v6v4 == ep(<<Detail("roce", "", "fe80::3"), Detail("RoCEv2", "192.168.1.3", "")>>)
    IN {<<>>, <<iscsi>>, <<bare>>, <<iscsi, bare>>, <<iscsi, both>>, <<bare, v4>>,
        <<v6>>, <<v6, v4>>, <<v6v4>>}

\* the environment of a publish that is offered these endpoints
Offering(id, endPoints) == [AttachSucceeds(id) EXCEPT !.endPoints = endPoints]

ResolvePublish ==
    /\ Running
    /\ \E req \in ReconcileRequests :
       \E env \in {Offering(req.VolumeId, l) : l \in ResolveEndPointLists(req.VolumeId)} :
          ControllerPublishVolume(req, env)
    /\ UNCHANGED <<pager, trip, concVars, waitVars, nodePaths>>

ResolveUnpublish ==
    /\ Running
    /\ \E req \in [VolumeId : RSDIds, NodeId : {DriverNodeID}] :
          ControllerUnpublishVolume(req, QuietEnv)
    /\ UNCHANGED <<pager, trip, concVars, waitVars, nodePaths>>

NextResolve ==
    \/ ReconcileCreate
    \/ QuietDeleteVolume
    \/ ResolvePublish
    \/ ResolveUnpublish

SpecResolve == Init /\ [][NextResolve]_vars

----------------------------------------------------------------------------
(* SpecCapacity: creates with every shape of capacity range, and deletes *)

\* no range, a range of zeros, of negative sizes, with one size or with both
WideCapacityRanges ==
    {Nil,
     [RequiredBytes |-> 0, LimitBytes |-> 0],
     [RequiredBytes |-> -1, LimitBytes |-> -1],
     [RequiredBytes |-> 32 * MB, LimitBytes |-> 0],
     [RequiredBytes |-> 0, LimitBytes |-> 8 * MB],
     [RequiredBytes |-> 32 * MB, LimitBytes |-> 8 * MB],
     [RequiredBytes |-> 8 * MB, LimitBytes |-> 32 * MB],
     [RequiredBytes |-> 64 * MB, LimitBytes |-> -1]}

CapacityCreate ==
    /\ Running
    /\ \E req \in [Name : Names, VolumeCapabilities : {<<SINGLE_NODE_WRITER>>},
                    CapacityRange : WideCapacityRanges] :
       \E fault \in {"none", "GetNewVolume"} :
          CreateVolume(req, fault, NewIdIn(RSDIds))
    /\ UNCHANGED <<pager, trip, concVars, waitVars, nodePaths>>

NextCapacity ==
    \/ CapacityCreate
    \/ QuietDeleteVolume

SpecCapacity == Init /\ [][NextCapacity]_vars

----------------------------------------------------------------------------
(* SpecUnstage: volumes staged on one of two paths and unstaged with either;
   no call of the environment fails *)

TwoStagingPaths == {PathSeq[1], PathSeq[2]}

UnstagePublish ==
    /\ Running
    /\ \E req \in ReconcileRequests :
       \E env \in {AttachSucceeds(req.VolumeId)} :
          ControllerPublishVolume(req, env)
    /\ UNCHANGED <<pager, trip, concVars, waitVars, nodePaths>>

StageOnEither ==
    /\ Running
    /\ \E req \in [VolumeId : RSDIds, StagingTargetPath : TwoStagingPaths,
                    VolumeCapability : {MountCapability}, FsType : {""}] :
          NodeStageVolume(req, "none")
    /\ UNCHANGED <<pager, trip, concVars, waitVars, nodePaths>>

UnstageWithEither ==
    /\ Running
    /\ \E req \in [VolumeId : RSDIds, StagingTargetPath : TwoStagingPaths] :
          NodeUnstageVolume(req, "none")
    /\ UNCHANGED <<pager, trip, concVars, waitVars, nodePaths>>

NextUnstage ==
    \/ ReconcileCreate
    \/ UnstagePublish
    \/ StageOnEither
    \/ UnstageWithEither

SpecUnstage == Init /\ [][NextUnstage]_vars

----------------------------------------------------------------------------
(* SpecWait: one caller of Node.attachOrDetach and an RSD whose ActionInfo
   resources change under it *)

\* AttachResource or DetachResource is called for a resource
CallAttachOrDetach ==
    /\ waiter.pc \in {"idle", "returned"}
    /\ \E action \in NodeActions, resource \in RSDIds :
          waiter' = [NotWaiting EXCEPT !.pc = "waiting", !.action = action,
                                       !.resource = resource]
    /\ UNCHANGED <<nodePaths, drvVars, pager, trip, concVars, actionInfo>>

\* one pass of the loop of WaitForAllowed
PollActionInfo ==
    /\ waiter.pc = "waiting"
    /\ waiter.i < nodeActionAttempts
    /\ LET outcome == pollOnce(actionInfo[waiter.action], waiter.resource)
           polled == [waiter EXCEPT !.polls = @ + 1]
       IN waiter' =
             CASE outcome = "error" ->
                    [polled EXCEPT !.pc = "returned",
                        !.err = WaitError("fetch", "", RedfishActionInfo(waiter.action))]
               [] outcome = "panic" -> [polled EXCEPT !.pc = "panicked"]
               [] outcome = "allowed" -> [polled EXCEPT !.pc = "allowed"]
               [] OTHER -> [polled EXCEPT !.i = @ + 1]
    /\ UNCHANGED <<nodePaths, drvVars, pager, trip, concVars, actionInfo>>

\* the loop of WaitForAllowed has run out
TimeoutExpired ==
    /\ waiter.pc = "waiting"
    /\ waiter.i >= nodeActionAttempts
    /\ waiter' = [waiter EXCEPT !.pc = "returned",
                     !.err = WaitError("timeout", waiter.resource,
                                       RedfishActionInfo(waiter.action))]
    /\ UNCHANGED <<nodePaths, drvVars, pager, trip, concVars, actionInfo>>

\* Node.Action: the POST, which may fail
PostAction ==
    /\ MayAct(waiter)
    /\ \E failed \in BOOLEAN :
          waiter' = [waiter EXCEPT !.pc = "returned", !.posts = @ + 1,
                        !.err = IF failed
                                THEN WaitError("action", waiter.resource, waiter.action)
                                ELSE waiter.err]
    /\ UNCHANGED <<nodePaths, drvVars, pager, trip, concVars, actionInfo>>

\* the RSD changes one of its ActionInfo resources, or the way to it breaks
RemoteChange ==
    /\ \E action \in NodeActions, info \in ActionInfos :
          /\ actionInfo[action] # info
          /\ actionInfo' = [actionInfo EXCEPT ![action] = info]
    /\ UNCHANGED <<nodePaths, drvVars, pager, trip, concVars, waiter>>

NextWait ==
    \/ CallAttachOrDetach
    \/ PollActionInfo
    \/ TimeoutExpired
    \/ PostAction
    \/ RemoteChange

\* the caller's goroutine keeps running: the sleep between polls ends
SpecWait ==
    /\ Init
    /\ [][NextWait]_vars
    /\ WF_vars(PollActionInfo) /\ WF_vars(TimeoutExpired) /\ WF_vars(PostAction)

----------------------------------------------------------------------------
(* Properties of the volume life cycle, checked under Spec *)

\* The properties of a single call are written over a step: last' is the call and
\* its reply, the unprimed variables are the state it found.  A call that changes
\* nothing and repeats the reply before it leaves every variable as it was; the
\* same call is also made from the state that differs in last alone (any refused
\* request leads there), so no call escapes the properties.

\* the names under which the registry vols holds the volume id
HolderOf(vols, id) == {n \in DOMAIN vols : vols[n].CSIVolume.VolumeId = id}
Known(id) == id # "" /\ HolderOf(volumes, id) # {}
RecordWith(id) == volumes[CHOOSE n \in HolderOf(volumes, id) : TRUE]
Called(reply, call) == call \in Range(reply.calls)
SupportedOnly(req) == req.VolumeCapabilities = <<SINGLE_NODE_WRITER>>

\* how many times a reply made a call
CallCount(reply, call) ==
    Cardinality({i \in 1..Len(reply.calls) : reply.calls[i] = call})

\* C1: a CreateVolume for a registered name whose effective capacity is at most the
\* capacity the volume was created with succeeds, returns the id the first call
\* returned, issues no remote call (so no remote create) and leaves the registry and
\* the remote resources as they were, one remote resource carrying that id.
C1_CreateIdempotentByName ==
    [][(/\ last'.op = "CreateVolume"
        /\ last'.req.Name \in DOMAIN volumes
        /\ SupportedOnly(last'.req)
        /\ getRequiredCapacity(last'.req)
              <= volumes[last'.req.Name].CSIVolume.CapacityBytes)
       => LET first == volumes[last'.req.Name].CSIVolume
          IN /\ last'.code = OK
             /\ last'.resp.Volume.VolumeId = first.VolumeId
             /\ last'.calls = <<>>
             /\ volumes' = volumes
             /\ rsdVolumes' = rsdVolumes
             /\ Cardinality({v \in rsdVolumes' : v.ID = first.VolumeId}) = 1]_vars

\* a second CreateVolume asked for less than the volume has and was given the volume
C1_SecondCreateAnswered ==
    /\ last.op = "CreateVolume"
    /\ last.code = OK
    /\ last.calls = <<>>
    /\ last.req.Name \in DOMAIN volumes
    /\ getRequiredCapacity(last.req) < volumes[last.req.Name].CSIVolume.CapacityBytes
    /\ last.resp.Volume = volumes[last.req.Name].CSIVolume

\* C2: a CreateVolume for a registered name whose effective capacity is larger than
\* the volume's capacity fails with AlreadyExists, issues no remote call and leaves
\* the registry (and the remote resources) unchanged.
C2_CreateLargerAlreadyExists ==
    [][(/\ last'.op = "CreateVolume"
        /\ last'.req.Name \in DOMAIN volumes
        /\ SupportedOnly(last'.req)
        /\ getRequiredCapacity(last'.req)
              > volumes[last'.req.Name].CSIVolume.CapacityBytes)
       => /\ last'.code = AlreadyExists
          /\ last'.calls = <<>>
          /\ volumes' = volumes
          /\ rsdVolumes' = rsdVolumes]_vars

C2_LargerRefused ==
    /\ last.op = "CreateVolume"
    /\ last.code = AlreadyExists
    /\ last.req.Name \in DOMAIN volumes
    /\ getRequiredCapacity(last.req) > volumes[last.req.Name].CSIVolume.CapacityBytes

\* C3: a DeleteVolume of a registered volume either issues the remote delete and,
\* that having succeeded, returns success with the record and the remote resource
\* gone, or issues the remote delete and returns an error with the registry and the
\* remote resources as they were.
C3_DeleteRemoteThenLocal ==
    [][(last'.op = "DeleteVolume" /\ Known(last'.req.VolumeId))
       => LET id == last'.req.VolumeId
          IN /\ Called(last', DeleteVolumeCall)
             /\ \/ /\ last'.code = OK
                   /\ HolderOf(volumes', id) = {}
                   /\ \A v \in rsdVolumes' : v.ID # id
                \/ /\ last'.code \notin {OK, Panic}
                   /\ volumes' = volumes
                   /\ rsdVolumes' = rsdVolumes]_vars

\* C4: a DeleteVolume with a non-empty id that no registered volume has returns
\* success, issues no remote call and leaves the registry and the remote resources
\* unchanged; so does a DeleteVolume that repeats one that has just succeeded.
C4_DeleteUnknownIsNoOp ==
    [][/\ (/\ last'.op = "DeleteVolume"
           /\ last'.req.VolumeId # ""
           /\ ~Known(last'.req.VolumeId))
          => /\ last'.code = OK
             /\ last'.calls = <<>>
             /\ volumes' = volumes
             /\ rsdVolumes' = rsdVolumes
       /\ (/\ last.op = "DeleteVolume" /\ last.code = OK
           /\ last'.op = "DeleteVolume" /\ last'.req = last.req)
          => /\ last'.code = OK
             /\ last'.calls = <<>>
             /\ volumes' = volumes
             /\ rsdVolumes' = rsdVolumes]_vars

\* a DeleteVolume for an id nothing is registered under, while other state exists
C4_UnknownDeleted ==
    /\ last.op = "DeleteVolume"
    /\ last.code = OK
    /\ last.calls = <<>>
    /\ last.req.VolumeId # ""
    /\ volumes # NoVolumes
    /\ \E v \in rsdVolumes : v.ID = last.req.VolumeId

\* C6: a well-formed ControllerPublishVolume for the driver's node on a volume that
\* is already published returns success, issues no remote call and leaves the
\* volume record and the set of attached resources unchanged.
C6_PublishIdempotent ==
    [][(/\ last'.op = "ControllerPublishVolume"
        /\ Known(last'.req.VolumeId)
        /\ last'.req.NodeId = DriverNodeID
        /\ last'.req.VolumeCapability # NoCapability
        /\ RecordWith(last'.req.VolumeId).IsPublished)
       => /\ last'.code = OK
          /\ last'.calls = <<>>
          /\ volumes' = volumes
          /\ attached' = attached]_vars

\* the second publish of a published volume has been answered
C6_PublishedTwice ==
    /\ last.op = "ControllerPublishVolume"
    /\ last.code = OK
    /\ last.calls = <<>>
    /\ Known(last.req.VolumeId)
    /\ RecordWith(last.req.VolumeId).IsPublished
    /\ RecordWith(last.req.VolumeId).RSDNodeID = last.req.NodeId

C8_StagedOnlyWhilePublished ==
    [][/\ (/\ last'.op = "NodeStageVolume"
           /\ Known(last'.req.VolumeId)
           /\ last'.req.StagingTargetPath # ""
           /\ last'.req.VolumeCapability = MountCapability
           /\ ~RecordWith(last'.req.VolumeId).IsPublished)
          => /\ last'.code = Aborted
             /\ Range(last'.calls) \cap {Connect, FormatCall, MountCall} = {}
             /\ volumes' = volumes
             /\ <<connected', formatted', mounts'>> = <<connected, formatted, mounts>>
       /\ \A n \in DOMAIN volumes' :
             volumes'[n].IsStaged
             => /\ n \in DOMAIN volumes
                /\ volumes[n].IsStaged \/ volumes[n].IsPublished]_vars

\* a stage was refused on an unpublished, unstaged volume that had been published
\* before (its endpoint is still on the record)
C8_UnpublishedRefused ==
    /\ last.op = "NodeStageVolume"
    /\ last.code = Aborted
    /\ last.calls = <<>>
    /\ Known(last.req.VolumeId)
    /\ ~RecordWith(last.req.VolumeId).IsPublished
    /\ ~RecordWith(last.req.VolumeId).IsStaged
    /\ RecordWith(last.req.VolumeId).EndPoint # Nil

\* C9: a NodeStageVolume (with a staging path and a mount capability) on a volume
\* that is staged and published returns success, invokes neither Connect, Format
\* nor Mount, and leaves the record (Device, IsStaged) and the node's connections,
\* filesystems and mounts unchanged.
C9_StageIdempotent ==
    [][(/\ last'.op = "NodeStageVolume"
        /\ Known(last'.req.VolumeId)
        /\ last'.req.StagingTargetPath # ""
        /\ last'.req.VolumeCapability = MountCapability
        /\ RecordWith(last'.req.VolumeId).IsStaged
        /\ RecordWith(last'.req.VolumeId).IsPublished)
       => /\ last'.code = OK
          /\ Range(last'.calls) \cap {Connect, FormatCall, MountCall} = {}
          /\ volumes' = volumes
          /\ <<connected', formatted', mounts'>> = <<connected, formatted, mounts>>]_vars

\* the second stage of a staged volume has been answered
C9_StagedTwice ==
    /\ last.op = "NodeStageVolume"
    /\ last.code = OK
    /\ last.calls = <<>>
    /\ Known(last.req.VolumeId)
    /\ RecordWith(last.req.VolumeId).IsStaged
    /\ RecordWith(last.req.VolumeId).IsPublished
    /\ RecordWith(last.req.VolumeId).Device # ""

\* C10: along CreateVolume, ControllerPublishVolume, NodeStageVolume,
\* NodeUnstageVolume, ControllerUnpublishVolume, DeleteVolume, each succeeding, the
\* volume is registered until the delete and gone after it, its EndPoint is set
\* exactly from the publish to the unpublish, and its Device exactly from the stage
\* to the unstage.
C10_RoundTripLeavesNothing ==
    trip.state \in Range(TripOrder)
    => IF trip.state = "deleted"
       THEN HolderOf(volumes, trip.id) = {}
       ELSE /\ Known(trip.id)
            /\ RecordWith(trip.id).EndPoint # Nil
                  <=> trip.state \in {"published", "staged", "unstaged"}
            /\ RecordWith(trip.id).Device # ""
                  <=> trip.state = "staged"

\* C11: in every reachable state every registered volume has an EndPoint exactly
\* when it is published, and a node NQN (RSDNodeNQN) exactly when it is published.
C11_EndPointIffPublished ==
    \A n \in DOMAIN volumes :
        /\ volumes[n].EndPoint # Nil <=> volumes[n].IsPublished
        /\ volumes[n].RSDNodeNQN # "" <=> volumes[n].IsPublished

\* C12: in every reachable state every registered volume has a Device exactly when
\* it is staged.
C12_DeviceIffStaged ==
    \A n \in DOMAIN volumes : volumes[n].Device # "" <=> volumes[n].IsStaged

\* an unstage has failed and left the volume staged, its device on the record
C12_StillStaged ==
    /\ last.op = "NodeUnstageVolume"
    /\ last.code = Aborted
    /\ Called(last, Disconnect)
    /\ Known(last.req.VolumeId)
    /\ RecordWith(last.req.VolumeId).IsStaged
    /\ RecordWith(last.req.VolumeId).Device # ""

\* C13: no step changes the remote volume (RSDVolume, whose ID and OdataID address
\* the remote resource) that a record holds, for as long as the name is registered.
C13_RemoteIdentityKept ==
    [][\A n \in DOMAIN volumes \cap DOMAIN volumes' :
           volumes'[n].RSDVolume = volumes[n].RSDVolume]_vars

\* C14: NodeStageVolume invokes Connect for a volume only when no connection to
\* that volume is open on the node (none made, or the last one disconnected).
C14_ConnectOnlyWhenUnconnected ==
    [][(last'.op = "NodeStageVolume" /\ Called(last', Connect))
       => DeviceOf(last'.req.VolumeId) \notin connected]_vars

\* the remote calls of a CreateVolume in which every remote step succeeds
CreateCalls == <<GetStorageServices, GetStorageService, GetVolumes, PostVolumes, GetVolumeCall>>

\* C16: a CreateVolume that went to the storage service either got through all
\* of its remote steps and answers OK with the new record, or failed at one of
\* them (storage-service read, empty service collection, volume-collection read,
\* remote create, re-fetch) and answers Internal with the registry as it was.
C16_FailedCreateAddsNothing ==
    [][(last'.op = "CreateVolume" /\ last'.calls # <<>>)
       => \/ /\ last'.code = OK
             /\ last'.calls = CreateCalls
             /\ last'.req.Name \in DOMAIN volumes' \ DOMAIN volumes
             /\ volumes'[last'.req.Name].CSIVolume = last'.resp.Volume
             /\ last'.resp.Volume.VolumeId \in {v.ID : v \in rsdVolumes'}
          \/ /\ last'.code = Internal
             /\ volumes' = volumes]_vars

\* a CreateVolume failed at the re-fetch: the resource exists, the name is unknown
C16_RefetchFailed ==
    /\ last.op = "CreateVolume" /\ last.code = Internal
    /\ last.calls = CreateCalls
    /\ last.req.Name \notin DOMAIN volumes
    /\ rsdVolumes # {}

\* C17: a ControllerPublishVolume that went to the RSD API and did not get
\* through all of its steps (node fetch, allow-list wait, attach action, volume
\* re-fetch, endpoint resolution, compute-system identity) answers with an
\* error and leaves IsPublished false; no publish issues a remote detach or
\* takes back an attach, whatever its outcome.
C17_FailedPublishNotCommitted ==
    [][(/\ last'.op = "ControllerPublishVolume"
        /\ last'.calls # <<>>
        /\ last'.code # Panic)
       => LET id == last'.req.VolumeId
              vol == volumes'[CHOOSE n \in HolderOf(volumes', id) : TRUE]
          IN /\ HolderOf(volumes', id) # {}
             /\ ~Called(last', PostDetach)
             /\ attached \subseteq attached'
             /\ \/ last'.code = OK /\ vol.IsPublished
                \/ last'.code = Aborted /\ ~vol.IsPublished]_vars

\* a publish failed at the compute-system step, after the attach took effect
C17_FailedAfterAttach ==
    /\ last.op = "ControllerPublishVolume" /\ last.code = Aborted
    /\ Called(last, PostAttach) /\ Called(last, GetSystem)
    /\ ~Called(last, PostDetach)
    /\ Known(last.req.VolumeId)
    /\ ~RecordWith(last.req.VolumeId).IsPublished
    /\ last.req.VolumeId \in attached

\* the staging path is the target of a mount in the mount table m
MountedAt(m, path) == \E i \in 1..Len(m) : m[i][2] = path

\* C18: a NodeUnstageVolume on a staged volume calls Unmount exactly when the
\* staging path is mounted, then Disconnect; a call that fails leaves IsStaged
\* true and Device as it was; a call that succeeds has disconnected that device
\* and cleared the record; the retry of a call whose Disconnect failed, finding
\* the path unmounted, calls no Unmount and goes to Disconnect with the same
\* device.
C18_UnstageStepsAndRetry ==
    [][(/\ last'.op = "NodeUnstageVolume"
        /\ last'.req.StagingTargetPath # ""
        /\ Known(last'.req.VolumeId)
        /\ RecordWith(last'.req.VolumeId).IsStaged)
       => LET id == last'.req.VolumeId
              path == last'.req.StagingTargetPath
              before == RecordWith(id)
              after == volumes'[CHOOSE n \in HolderOf(volumes', id) : TRUE]
              retried == /\ last.op = "NodeUnstageVolume" /\ last.req = last'.req
                         /\ last.code = Aborted /\ Called(last, Disconnect)
          IN /\ last'.calls \in {<<IsMountedCall>>, <<IsMountedCall, UnmountCall>>,
                                 <<IsMountedCall, Disconnect>>,
                                 <<IsMountedCall, UnmountCall, Disconnect>>}
             /\ Called(last', UnmountCall) => MountedAt(mounts, path)
             /\ Called(last', Disconnect) =>
                    /\ Called(last', UnmountCall) <=> MountedAt(mounts, path)
                    /\ Len(mounts') = IF MountedAt(mounts, path)
                                      THEN Len(mounts) - 1 ELSE Len(mounts)
             /\ ~Called(last', Disconnect) => mounts' = mounts /\ last'.code = Aborted
             /\ last'.code \in {OK, Aborted}
             /\ last'.code = Aborted => after = before /\ connected' = connected
             /\ last'.code = OK =>
                    /\ ~after.IsStaged /\ after.Device = ""
                    /\ before.Device \in connected
                    /\ connected' = connected \ {before.Device}
             /\ (retried /\ ~MountedAt(mounts, path)) =>
                    /\ before.Device = DeviceOf(id)
                    /\ last'.calls \in {<<IsMountedCall>>, <<IsMountedCall, Disconnect>>}]_vars

\* the retry of an unstage whose Disconnect had failed: no Unmount this time,
\* Disconnect fails again and the volume is still staged on its device
C18_RetriedDisconnect ==
    /\ last.op = "NodeUnstageVolume" /\ last.code = Aborted
    /\ last.calls = <<IsMountedCall, Disconnect>>
    /\ Known(last.req.VolumeId)
    /\ RecordWith(last.req.VolumeId).IsStaged
    /\ RecordWith(last.req.VolumeId).Device = DeviceOf(last.req.VolumeId)
    /\ ~MountedAt(mounts, last.req.StagingTargetPath)

\* C19: a ControllerUnpublishVolume for this node on an unpublished volume
\* answers OK without a remote call; on a published volume it issues the
\* detach and, when that succeeds, sets IsPublished false and clears the node
\* NQN and the EndPoint of the record.
C19_UnpublishClearsRecord ==
    [][(/\ last'.op = "ControllerUnpublishVolume"
        /\ last'.req.NodeId = DriverNodeID
        /\ Known(last'.req.VolumeId))
       => LET id == last'.req.VolumeId
              before == RecordWith(id)
              after == volumes'[CHOOSE n \in HolderOf(volumes', id) : TRUE]
          IN IF ~before.IsPublished
             THEN last'.code = OK /\ last'.calls = <<>>
             ELSE last'.code = OK =>
                      /\ Called(last', PostDetach)
                      /\ ~after.IsPublished
                      /\ after.RSDNodeNQN = ""
                      /\ after.EndPoint = Nil]_vars

\* C26: a NodeStageVolume (with a staging path and a mount capability) on a
\* volume that is staged returns success, invokes neither Connect, Format nor
\* Mount and changes nothing, whether the volume is still published or not.
C26_StagedBeforePublished ==
    [][(/\ last'.op = "NodeStageVolume"
        /\ Known(last'.req.VolumeId)
        /\ last'.req.StagingTargetPath # ""
        /\ last'.req.VolumeCapability = MountCapability
        /\ RecordWith(last'.req.VolumeId).IsStaged)
       => /\ last'.code = OK
          /\ Range(last'.calls) \cap {Connect, FormatCall, MountCall} = {}
          /\ volumes' = volumes
          /\ <<connected', formatted', mounts'>> = <<connected, formatted, mounts>>]_vars

\* a stage has been answered on a volume that is staged and no longer published
C26_StagedUnpublishedAsked ==
    /\ last.op = "NodeStageVolume"
    /\ last.req.StagingTargetPath # ""
    /\ last.req.VolumeCapability = MountCapability
    /\ Known(last.req.VolumeId)
    /\ RecordWith(last.req.VolumeId).IsStaged
    /\ ~RecordWith(last.req.VolumeId).IsPublished

\* the first place of a call among the calls of a reply, 0 when it was not made
FirstCall(reply, call) ==
    IF Called(reply, call)
    THEN CHOOSE i \in 1..Len(reply.calls) :
            reply.calls[i] = call /\ \A j \in 1..(i - 1) : reply.calls[j] # call
    ELSE 0

\* C27: a NodeStageVolume invokes Format at most once, after IsFormatted, and
\* only when the device it connected carried no filesystem; it invokes Mount at
\* most once, after IsMounted, and only when the device was not mounted on the
\* staging path; so a device that carries a filesystem is never formatted.
C27_FormatAndMountGuarded ==
    [][last'.op = "NodeStageVolume" /\ Range(last'.calls) \cap {FormatCall, MountCall} # {}
       => /\ Known(last'.req.VolumeId)
          /\ LET vol == RecordWith(last'.req.VolumeId)
                 dev == DeviceOfNQN(vol.EndPoint.nqn)
                 path == last'.req.StagingTargetPath
             IN /\ vol.EndPoint # Nil
                /\ dev \in connected'
                /\ Called(last', FormatCall)
                      => /\ dev \notin formatted
                         /\ CallCount(last', FormatCall) = 1
                         /\ CallCount(last', IsFormattedCall) = 1
                         /\ FirstCall(last', IsFormattedCall) < FirstCall(last', FormatCall)
                /\ Called(last', MountCall)
                      => /\ \A i \in 1..Len(mounts) : mounts[i] # <<dev, path>>
                         /\ CallCount(last', MountCall) = 1
                         /\ CallCount(last', IsMountedCall) = 1
                         /\ FirstCall(last', IsMountedCall) < FirstCall(last', MountCall)
                         /\ last'.code = OK => mounts' = Append(mounts, <<dev, path>>)
                /\ formatted \subseteq formatted']_vars

\* a stage that found the filesystem of an earlier attempt: it mounted without
\* formatting
C27_MountedWithoutFormat ==
    /\ last.op = "NodeStageVolume" /\ last.code = OK
    /\ Called(last, IsFormattedCall) /\ ~Called(last, FormatCall)
    /\ Called(last, MountCall)

\* C29: a ControllerUnpublishVolume by the driver's node on a volume that is
\* published and staged, with the remote detach succeeding, answers OK, sets
\* IsPublished to false, leaves IsStaged and Device (and the node's
\* connections and mounts) as they were and invokes neither Unmount nor
\* Disconnect.
C29_UnpublishWhileStaged ==
    [][(/\ last'.op = "ControllerUnpublishVolume"
        /\ Known(last'.req.VolumeId)
        /\ last'.req.NodeId = DriverNodeID
        /\ RecordWith(last'.req.VolumeId).IsStaged
        /\ RecordWith(last'.req.VolumeId).IsPublished
        /\ Called(last', PostDetach) /\ last'.code # Aborted)
       => LET n == CHOOSE m \in HolderOf(volumes, last'.req.VolumeId) : TRUE
          IN /\ last'.code = OK
             /\ n \in DOMAIN volumes'
             /\ ~volumes'[n].IsPublished
             /\ volumes'[n].IsStaged
             /\ volumes'[n].Device = volumes[n].Device /\ volumes[n].Device # ""
             /\ Range(last'.calls) \cap {UnmountCall, Disconnect} = {}
             /\ <<connected', formatted', mounts'>> = <<connected, formatted, mounts>>
             /\ attached' = attached \ {volumes[n].RSDVolume.ID}]_vars

\* a staged volume has been unpublished and is still staged
C29_StagedAfterUnpublish ==
    /\ last.op = "ControllerUnpublishVolume" /\ last.code = OK
    /\ Called(last, PostDetach)
    /\ Known(last.req.VolumeId)
    /\ RecordWith(last.req.VolumeId).IsStaged
    /\ ~RecordWith(last.req.VolumeId).IsPublished
    /\ RecordWith(last.req.VolumeId).Device \in connected

\* C38: a ControllerUnpublishVolume of a published volume that does not get
\* through its remote steps (the read of the node, the wait for the allow-list,
\* the detach action) answers Aborted and leaves the record as it was, with
\* IsPublished true and its EndPoint, RSDNodeID and RSDNodeNQN, and the
\* attachment in place; one that answers OK has posted the detach.
C38_FailedUnpublishKeepsRecord ==
    [][(/\ last'.op = "ControllerUnpublishVolume"
        /\ Known(last'.req.VolumeId)
        /\ RecordWith(last'.req.VolumeId).IsPublished
        /\ last'.calls # <<>>)
       => LET n == CHOOSE m \in HolderOf(volumes, last'.req.VolumeId) : TRUE
          IN \/ /\ last'.code = OK
                /\ Called(last', PostDetach)
                /\ ~volumes'[n].IsPublished
             \/ /\ last'.code = Aborted
                /\ volumes' = volumes
                /\ volumes'[n].IsPublished
                /\ volumes'[n].EndPoint = volumes[n].EndPoint
                /\ volumes'[n].RSDNodeID = volumes[n].RSDNodeID
                /\ volumes'[n].RSDNodeNQN = volumes[n].RSDNodeNQN
                /\ attached' = attached]_vars

\* the detach of a published volume was posted and failed
C38_DetachFailed ==
    /\ last.op = "ControllerUnpublishVolume" /\ last.code = Aborted
    /\ Called(last, PostDetach)
    /\ Known(last.req.VolumeId)
    /\ RecordWith(last.req.VolumeId).IsPublished
    /\ RecordWith(last.req.VolumeId).RSDNodeID = DriverNodeID
    /\ last.req.VolumeId \in attached

\* C39: a NodeStageVolume that fails, at whichever of its steps (the checks of
\* the record, Connect, IsFormatted, Format, IsMounted, Mount), answers with an
\* error and leaves every record as it was; when a step was attempted the record
\* has IsStaged false and no Device, also when Connect had succeeded, and no
\* Disconnect is issued: the connection a failed stage made stays.
C39_FailedStageKeepsRecord ==
    [][(/\ last'.op = "NodeStageVolume"
        /\ Known(last'.req.VolumeId)
        /\ last'.code \notin {OK, Panic, InvalidArgument})
       => LET n == CHOOSE m \in HolderOf(volumes, last'.req.VolumeId) : TRUE
          IN /\ last'.code = Aborted
             /\ volumes' = volumes
             /\ ~Called(last', Disconnect)
             /\ connected \subseteq connected'
             /\ last'.calls # <<>>
                   => /\ ~volumes'[n].IsStaged /\ volumes'[n].Device = ""
                      /\ Called(last', Connect)
             /\ Len(last'.calls) > 1
                   => DeviceOf(last'.req.VolumeId) \in connected']_vars

\* a stage failed at Mount, after Connect made the connection: the device is
\* connected and the record knows no device
C39_FailedAfterConnect ==
    /\ last.op = "NodeStageVolume" /\ last.code = Aborted
    /\ Called(last, Connect) /\ Called(last, MountCall)
    /\ ~Called(last, Disconnect)
    /\ Known(last.req.VolumeId)
    /\ ~RecordWith(last.req.VolumeId).IsStaged
    /\ RecordWith(last.req.VolumeId).Device = ""
    /\ DeviceOf(last.req.VolumeId) \in connected

----------------------------------------------------------------------------
(* Properties of the driver with the node's bind mounts, checked under SpecNode *)

\* the request of the reply lacks a field its handler requires or, for
\* CreateVolume, asks for an access mode other than SINGLE_NODE_WRITER
MissingArgument(reply) ==
    LET req == reply.req
        op == reply.op
    IN CASE op = "CreateVolume" ->
                \/ req.Name = ""
                \/ req.VolumeCapabilities = <<>>
                \/ \E i \in 1..Len(req.VolumeCapabilities) :
                       req.VolumeCapabilities[i] \notin {SINGLE_NODE_WRITER, NoAccessMode}
         [] op = "DeleteVolume" -> req.VolumeId = ""
         [] op = "ControllerPublishVolume" ->
                req.VolumeId = "" \/ req.NodeId = "" \/ req.VolumeCapability = NoCapability
         [] op = "ControllerUnpublishVolume" -> req.VolumeId = "" \/ req.NodeId = ""
         [] op = "NodeStageVolume" ->
                \/ req.VolumeId = "" \/ req.StagingTargetPath = ""
                \/ req.VolumeCapability = NoCapability
         [] op = "NodeUnstageVolume" -> req.VolumeId = "" \/ req.StagingTargetPath = ""
         [] op = "NodePublishVolume" ->
                \/ req.VolumeId = "" \/ req.StagingTargetPath = "" \/ req.TargetPath = ""
                \/ req.VolumeCapability = NoCapability
         [] op = "NodeUnpublishVolume" -> req.VolumeId = "" \/ req.TargetPath = ""
         [] OTHER -> FALSE

\* C21: a request that lacks a required field or, for CreateVolume, asks for an
\* access mode other than single-node-writer is answered InvalidArgument with
\* no call to the RSD API, the mounter or the NVMe connector and with the
\* registry and everything outside the driver left as they were.
C21_ValidationBeforeEffects ==
    [][MissingArgument(last')
       => /\ last'.code = InvalidArgument
          /\ last'.calls = <<>>
          /\ UNCHANGED <<volumes, rsdVolumes, attached, connected, formatted, mounts>>]_vars

\* the target path carries a mount whose source is the staging path
BoundAt(table, stagingPath, targetPath) ==
    \E i \in 1..Len(table) : table[i][1] = stagingPath /\ table[i][2] = targetPath

\* C30: a NodePublishVolume that gets to the mounter invokes Mount only when
\* the target path is not mounted from the staging path, at most once, and a
\* successful one leaves the target mounted from the staging path: it either
\* found the mount and left the mount table alone, or added one bind mount
\* whose options are the request's flags, then bind, then ro when the request
\* is read-only.
C30_BindMountOnce ==
    [][last'.op = "NodePublishVolume" /\ last'.code \in {OK, Aborted}
       => LET req == last'.req
              was == BoundAt(mounts, req.StagingTargetPath, req.TargetPath)
              opts == IF req.Readonly
                      THEN req.MountFlags \o <<"bind", "ro">>
                      ELSE Append(req.MountFlags, "bind")
          IN /\ Called(last', MountCall) => ~was /\ CallCount(last', MountCall) = 1
             /\ last'.code = OK
                   => /\ Called(last', MountCall) <=> ~was
                      /\ mounts' = IF was THEN mounts
                                   ELSE Append(mounts,
                                          <<req.StagingTargetPath, req.TargetPath, opts>>)
             /\ last'.code = Aborted => mounts' = mounts]_vars

\* a read-only publish with a mount flag was repeated: the second call found
\* the bind mount and did not mount
C30_PublishedTwice ==
    /\ last.op = "NodePublishVolume" /\ last.code = OK
    /\ last.req.Readonly /\ last.req.MountFlags # <<>>
    /\ last.calls = <<IsMountedCall>>
    /\ Cardinality({i \in 1..Len(mounts) :
                       mounts[i] = <<last.req.StagingTargetPath, last.req.TargetPath,
                                     last.req.MountFlags \o <<"bind", "ro">> >>}) = 1

----------------------------------------------------------------------------
(* Properties of concurrent RPCs, checked under SpecConc *)

\* an RPC is at work on the registry: between taking the lock and returning, or
\* inside a lookup made without the lock
InRegistry(t) == rpc[t].state \in {"locked", "reading"}

\* C15: every registry operation holds volumesRWL from its first access to the
\* registry until it returns, so no two RPCs are at work on the registry at the
\* same time.
C15_OneRPCInRegistry ==
    \A t \in RPCs : InRegistry(t) => \A u \in RPCs \ {t} : ~InRegistry(u)

\* an RPC has called Probe and the handler has not returned yet
Probing(t) == rpc[t].state \in {"called", "probing"} /\ rpc[t].call.op = "Probe"

\* C22: a Probe that has been called returns (unless the process has ended in
\* a panic), whatever the volume operations do and however long one of them
\* holds volumesRWL; it never takes volumesRWL, and its reply is OK with the
\* value of the ready flag.
C22_ProbeNeverWaits ==
    /\ \A t \in RPCs : Probing(t) ~> (rpc[t].state = "idle" \/ ~Running)
    /\ [](\A t \in RPCs : Probing(t) => volumesRWL # t)
    /\ [](last.op = "Probe" => last.code = OK /\ last.resp.Ready = ready)

\* a Probe has returned while another RPC holds volumesRWL
C22_ProbedUnderLock ==
    /\ last.op = "Probe" /\ last.code = OK
    /\ \E t \in RPCs : volumesRWL = t /\ rpc[t].state = "locked"

\* an RPC's CreateVolume returns in this step
CreateServed(t) ==
    /\ rpc[t].state = "locked" /\ rpc[t].call.op = "CreateVolume"
    /\ rpc'[t] = Idle

\* C25: of concurrent CreateVolume calls with the same name and capacity, the
\* one served on a registry without the name issues exactly one remote create
\* and adds exactly one record, and one served once the name is registered
\* issues no remote call, changes nothing and returns the recorded id; so two
\* such calls answered one after the other return the same volume id, after
\* one remote create in all.
C25_ConcurrentCreatesOnce ==
    /\ [][\A t \in RPCs : CreateServed(t)
          => LET name == rpc[t].call.req.Name
             IN /\ last'.op = "CreateVolume" /\ last'.code = OK
                /\ DOMAIN volumes' = DOMAIN volumes \cup {name}
                /\ last'.resp.Volume.VolumeId = volumes'[name].CSIVolume.VolumeId
                /\ IF name \in DOMAIN volumes
                   THEN /\ last'.calls = <<>>
                        /\ volumes' = volumes /\ rsdVolumes' = rsdVolumes
                   ELSE /\ CallCount(last', PostVolumes) = 1
                        /\ Cardinality(rsdVolumes') = Cardinality(rsdVolumes) + 1]_vars
    /\ [][/\ last.op = "CreateVolume" /\ last'.op = "CreateVolume"
           /\ last'.req = last.req /\ last' # last
          => /\ last'.resp = last.resp
             /\ CallCount(last, PostVolumes) + CallCount(last', PostVolumes) <= 1
             /\ volumes' = volumes]_vars

\* the first of two concurrent creates has been served while the second waits
C25_DuplicateWaiting ==
    /\ last.op = "CreateVolume" /\ last.code = OK
    /\ CallCount(last, PostVolumes) = 1
    /\ \E u \in RPCs : /\ rpc[u].state = "called"
                        /\ rpc[u].call.op = "CreateVolume"
                        /\ rpc[u].call.req = last.req
    /\ \E t \in RPCs : rpc[t].state = "idle"

----------------------------------------------------------------------------
(* Properties of deleting and unstaging volumes in use, checked under SpecNode *)

\* C35: a DeleteVolume of a registered volume looks at neither IsPublished nor
\* IsStaged: it deletes the RSD resource and the record with the one remote
\* DELETE, without a detach, an Unmount or a Disconnect; a NodeUnstageVolume or
\* ControllerUnpublishVolume that then names the id, while no record has it,
\* answers NotFound and changes nothing.
C35_DeleteIgnoresFlags ==
    [][/\ (last'.op = "DeleteVolume" /\ Known(last'.req.VolumeId))
          => /\ last'.code = OK
             /\ last'.calls = <<DeleteVolumeCall>>
             /\ HolderOf(volumes', last'.req.VolumeId) = {}
             /\ last'.req.VolumeId \notin {v.ID : v \in rsdVolumes'}
             /\ connected' = connected /\ mounts' = mounts
       /\ (/\ \/ (last'.op = "NodeUnstageVolume" /\ last'.req.StagingTargetPath # "")
               \/ (last'.op = "ControllerUnpublishVolume" /\ last'.req.NodeId # "")
           /\ last'.req.VolumeId # ""
           /\ ~Known(last'.req.VolumeId))
          => /\ last'.code = NotFound
             /\ last'.calls = <<>>
             /\ drvVars' = <<volumes, rsdVolumes, attached, connected, formatted,
                             mounts, last'>>]_vars

\* a volume was deleted while published and staged: its device is still
\* connected and mounted, and an unstage for its id found no volume
C35_UnstageAfterDelete ==
    /\ last.op = "NodeUnstageVolume" /\ last.code = NotFound
    /\ ~Known(last.req.VolumeId)
    /\ DeviceOf(last.req.VolumeId) \in connected
    /\ \E i \in 1..Len(mounts) : mounts[i][1] = DeviceOf(last.req.VolumeId)

\* C36: a NodeUnstageVolume of a registered staged volume, in an environment
\* where IsMounted, Unmount and Disconnect succeed, answers OK and leaves the
\* record with IsStaged false and no Device, whether the volume is published or
\* not; IsPublished is as it was.
C36_UnstageWhateverPublished ==
    [][(/\ last'.op = "NodeUnstageVolume"
        /\ last'.req.StagingTargetPath # ""
        /\ Known(last'.req.VolumeId)
        /\ RecordWith(last'.req.VolumeId).IsStaged)
       => LET n == CHOOSE m \in HolderOf(volumes, last'.req.VolumeId) : TRUE
          IN /\ last'.code = OK
             /\ Called(last', Disconnect)
             /\ n \in DOMAIN volumes'
             /\ ~volumes'[n].IsStaged
             /\ volumes'[n].Device = ""
             /\ volumes'[n].IsPublished = volumes[n].IsPublished]_vars

\* a volume that was no longer published was unstaged
C36_UnstagedUnpublished ==
    /\ last.op = "NodeUnstageVolume" /\ last.code = OK
    /\ Called(last, Disconnect)
    /\ Known(last.req.VolumeId)
    /\ ~RecordWith(last.req.VolumeId).IsPublished
    /\ ~RecordWith(last.req.VolumeId).IsStaged
    /\ RecordWith(last.req.VolumeId).Device = ""

\* C37: NodePublishVolume and NodeUnpublishVolume neither need nor change the
\* flags of a volume: a well-formed request for a registered volume whose mounter
\* calls succeed is answered OK whatever IsPublished and IsStaged are, and no
\* NodePublishVolume or NodeUnpublishVolume, whatever its outcome, changes a
\* record (IsPublished, IsStaged, EndPoint, RSDNodeID, RSDNodeNQN, Device), the
\* RSD's resources, the attachments or the NVMe connections.
C37_BindMountsLeaveFlags ==
    [][/\ last'.op \in {"NodePublishVolume", "NodeUnpublishVolume"}
          => /\ volumes' = volumes /\ rsdVolumes' = rsdVolumes
             /\ attached' = attached /\ connected' = connected
       /\ (/\ last'.op = "NodePublishVolume"
           /\ Known(last'.req.VolumeId)
           /\ last'.req.StagingTargetPath # "" /\ last'.req.TargetPath # ""
           /\ last'.req.VolumeCapability = MountCapability
           /\ NodePublishVolume(last'.req, "none"))
          => last'.code = OK
       /\ (/\ last'.op = "NodeUnpublishVolume"
           /\ Known(last'.req.VolumeId)
           /\ last'.req.TargetPath # ""
           /\ NodeUnpublishVolume(last'.req, "none"))
          => last'.code = OK]_vars

\* a volume that is neither published nor staged was bind-mounted
C37_BoundUnstaged ==
    /\ last.op = "NodePublishVolume" /\ last.code = OK
    /\ Called(last, MountCall)
    /\ Known(last.req.VolumeId)
    /\ ~RecordWith(last.req.VolumeId).IsPublished
    /\ ~RecordWith(last.req.VolumeId).IsStaged
    /\ RecordWith(last.req.VolumeId).Device = ""

----------------------------------------------------------------------------
(* Properties of the capacity of a new volume, checked under SpecCapacity *)

\* the limit when it is positive, else the required bytes when they are
\* positive, else 16 MiB
EffectiveCapacity(range) ==
    CASE range # Nil /\ range.LimitBytes > 0 -> range.LimitBytes
      [] range # Nil /\ range.LimitBytes <= 0 /\ range.RequiredBytes > 0 -> range.RequiredBytes
      [] OTHER -> 16777216

\* C33: the capacity a CreateVolume works with is the request's limit when the
\* limit is positive, else its required bytes when they are positive, else 16 MiB:
\* the resource a create for a new name makes in the RSD has that size, and so has
\* the volume it answers with and registers, and a create for a registered name is refused exactly when the registered
\* volume is smaller than that.
C33_EffectiveCapacity ==
    [][(last'.op = "CreateVolume" /\ last'.req.Name # "")
       => LET want == EffectiveCapacity(last'.req.CapacityRange)
              name == last'.req.Name
          IN IF name \in DOMAIN volumes
             THEN (last'.code = AlreadyExists)
                     <=> (volumes[name].CSIVolume.CapacityBytes < want)
             ELSE /\ \A v \in rsdVolumes' \ rsdVolumes : v.CapacityBytes = want
                  /\ last'.code = OK
                        => /\ last'.resp.Volume.CapacityBytes = want
                           /\ volumes'[name].CSIVolume.CapacityBytes = want]_vars

\* a volume was created with the limit of a range whose required bytes are larger
C33_LimitBelowRequired ==
    /\ last.op = "CreateVolume" /\ last.code = OK
    /\ last.calls # <<>>
    /\ last.req.CapacityRange # Nil
    /\ last.req.CapacityRange.RequiredBytes > last.req.CapacityRange.LimitBytes
    /\ last.req.CapacityRange.LimitBytes > 0
    /\ last.resp.Volume.CapacityBytes = last.req.CapacityRange.LimitBytes

\* C34: a CreateVolume whose remote create succeeds and whose re-fetch of the new
\* resource fails leaves that resource in the RSD, registers nothing and issues
\* no remote delete; a retry, which finds no record of the name, issues a second
\* remote create that adds a resource next to the one left behind.
C34_RefetchFailureLeavesResource ==
    [][(last'.op = "CreateVolume" /\ last'.req.Name # "" /\ last'.req.Name \notin DOMAIN volumes)
       => /\ CallCount(last', PostVolumes) = 1
          /\ \A i \in 1..Len(last'.calls) : last'.calls[i] # DeleteVolumeCall
          /\ rsdVolumes \subseteq rsdVolumes'
          /\ NewIdIn(RSDIds) # "" => Cardinality(rsdVolumes') = Cardinality(rsdVolumes) + 1
          /\ (last'.code = Internal /\ last'.calls = CreateCalls)
                => /\ volumes' = volumes
                   /\ Cardinality(rsdVolumes') = Cardinality(rsdVolumes) + 1]_vars

\* a retried CreateVolume succeeded next to the resource an earlier one left behind
C34_SecondResourceCreated ==
    /\ last.op = "CreateVolume" /\ last.code = OK
    /\ last.calls = CreateCalls
    /\ Cardinality(rsdVolumes) = 2
    /\ Cardinality(DOMAIN volumes) = 1
    /\ last.resp.Volume.VolumeId = "2"

----------------------------------------------------------------------------
(* Properties of endpoint resolution, checked under SpecResolve *)

\* the transport details of a list of endpoints, in the order of the scan
RECURSIVE AllDetails(_)
AllDetails(endPoints) ==
    IF endPoints = <<>> THEN <<>>
    ELSE Head(endPoints).IPTransportDetails \o AllDetails(Tail(endPoints))

\* a detail of the RoCE family with an address
Qualifies(d) ==
    /\ ToUpper(d.TransportProtocol) \in {"ROCE", "ROCEV2"}
    /\ d.IPv4Address # "" \/ d.IPv6Address # ""

\* this step is a publish, offered these endpoints, of a registered volume
\* that was not published
PublishOffered(req, l) ==
    /\ Known(req.VolumeId)
    /\ ~RecordWith(req.VolumeId).IsPublished
    /\ ControllerPublishVolume(req, Offering(req.VolumeId, l))

\* C32 as stated: the endpoint chosen is of the RoCE family and has an
\* address, the IPv4 address is chosen whenever the endpoints offer a
\* qualifying IPv4 address and a qualifying IPv6 address, and when no
\* endpoint qualifies the publish fails and IsPublished stays false.
C32_IPv4WheneverOffered ==
    [][\A req \in ReconcileRequests : \A l \in ResolveEndPointLists(req.VolumeId) :
          PublishOffered(req, l)
          => LET ds == AllDetails(l)
                 good == {i \in 1..Len(ds) : Qualifies(ds[i])}
                 n == CHOOSE m \in HolderOf(volumes, req.VolumeId) : TRUE
             IN IF good = {}
                THEN last'.code = Aborted /\ ~volumes'[n].IsPublished
                ELSE /\ last'.code = OK /\ volumes'[n].IsPublished
                     /\ (\E i \in good : ds[i].IPv4Address # "")
                           => volumes'[n].EndPoint.ipAddressFamily = "IPv4"]_vars

\* C32, amended: the first detail, in the order of the endpoints and of their
\* details, that is of the RoCE family (in any letter case) and has an address
\* is the one chosen, with its IPv4 address when it has one and its IPv6
\* address otherwise; when no detail qualifies the publish fails and
\* IsPublished stays false.
C32_FirstQualifyingDetail ==
    [][\A req \in ReconcileRequests : \A l \in ResolveEndPointLists(req.VolumeId) :
          PublishOffered(req, l)
          => LET ds == AllDetails(l)
                 good == {i \in 1..Len(ds) : Qualifies(ds[i])}
                 n == CHOOSE m \in HolderOf(volumes, req.VolumeId) : TRUE
             IN IF good = {}
                THEN last'.code = Aborted /\ ~volumes'[n].IsPublished
                ELSE LET d == ds[CHOOSE i \in good : \A j \in good : i <= j]
                         ep == volumes'[n].EndPoint
                     IN /\ last'.code = OK /\ volumes'[n].IsPublished
                        /\ ep.transportProtocol = "rdma" /\ ep.ipPort = d.Port
                        /\ IF d.IPv4Address # ""
                           THEN ep.ipAddressFamily = "IPv4" /\ ep.ipAddress = d.IPv4Address
                           ELSE ep.ipAddressFamily = "IPv6" /\ ep.ipAddress = d.IPv6Address]_vars

\* a volume was published over the IPv6 address of a RoCE detail
C32_PublishedOverIPv6 ==
    /\ last.op = "ControllerPublishVolume" /\ last.code = OK
    /\ Known(last.req.VolumeId)
    /\ RecordWith(last.req.VolumeId).IsPublished
    /\ RecordWith(last.req.VolumeId).EndPoint.ipAddressFamily = "IPv6"
    /\ RecordWith(last.req.VolumeId).EndPoint.ipAddress = "fe80::3"

----------------------------------------------------------------------------
(* Properties of unstaging with any staging path, checked under SpecUnstage *)

\* the paths a device is mounted on
MountedOn(mnts, dev) == {mnts[i][2] : i \in {j \in 1..Len(mnts) : mnts[j][1] = dev}}

\* C40: when a NodeUnstageVolume has called Disconnect for the device of a
\* volume, that device is mounted on no staging path, whichever staging path
\* the request named.
C40_UnmountedBeforeDisconnect ==
    [][(/\ last'.op = "NodeUnstageVolume"
        /\ Called(last', Disconnect)
        /\ Known(last'.req.VolumeId))
       => MountedOn(mounts', RecordWith(last'.req.VolumeId).Device) = {}]_vars

\* a volume staged on one path was unstaged with the other: it is no longer
\* staged, its device was disconnected and is still mounted where it was staged
C40_DisconnectedWhileMounted ==
    /\ last.op = "NodeUnstageVolume" /\ last.code = OK
    /\ last.calls = <<IsMountedCall, Disconnect>>
    /\ Known(last.req.VolumeId)
    /\ ~RecordWith(last.req.VolumeId).IsStaged
    /\ DeviceOf(last.req.VolumeId) \notin connected
    /\ MountedOn(mounts, DeviceOf(last.req.VolumeId)) # {}
    /\ last.req.StagingTargetPath \notin MountedOn(mounts, DeviceOf(last.req.VolumeId))

----------------------------------------------------------------------------
(* Properties of reconciliation, checked under SpecReconcile *)

RemoteAttached(n) == volumes[n].RSDVolume # Nil /\ volumes[n].RSDVolume.ID \in attached

\* the volume is attached on the remote side while the record says unpublished
AttachedUnpublished(n) ==
    n \in DOMAIN volumes /\ RemoteAttached(n) /\ ~volumes[n].IsPublished

InAgreement(n) ==
    n \in DOMAIN volumes => (RemoteAttached(n) <=> volumes[n].IsPublished)

\* C28: a volume left attached and unpublished by a failed publish comes back
\* into agreement (attached and published, or detached and unpublished) when
\* the caller keeps retrying ControllerPublishVolume and
\* ControllerUnpublishVolume and the remote calls no longer fail.
C28_Reconcilable ==
    \A n \in Names : AttachedUnpublished(n) ~> InAgreement(n)

\* a publish failed after its attach took effect
C28_AttachedUnpublished ==
    /\ last.op = "ControllerPublishVolume" /\ last.code = Aborted
    /\ Called(last, PostAttach)
    /\ \E n \in Names : AttachedUnpublished(n)

\* no retried publish or unpublish changes the attachment or the record of a
\* volume that is attached and unpublished
RetriesKeepDisagreement ==
    [][\A n \in Names :
          AttachedUnpublished(n) /\ (RetryPublish \/ RetryUnpublish)
          => /\ attached' = attached
             /\ volumes'[n].IsPublished = volumes[n].IsPublished
             /\ last'.req.VolumeId = volumes[n].CSIVolume.VolumeId
                   => /\ last'.op = "ControllerPublishVolume"
                            => last'.code = Aborted /\ ~Called(last', PostAttach)
                      /\ last'.op = "ControllerUnpublishVolume"
                            => last'.code = OK /\ last'.calls = <<>>]_vars

----------------------------------------------------------------------------
(* Properties of attachOrDetach, checked under SpecWait *)

\* the allowed values of an ActionInfo contain the resource
Listed(info, resource) ==
    /\ ~info.err
    /\ \E p \in 1..Len(info.Parameters) :
          \E k \in 1..Len(info.Parameters[p].AllowableValues) :
             info.Parameters[p].AllowableValues[k] = Value(resource)

\* C23: the wait of an attach (detach) ends well only on a poll of that action's
\* own ActionInfo that lists the target resource; the action is posted only
\* after such a wait, once; and a call whose wait ended with a fetch error or
\* a timeout has posted nothing.
C23_ActionOnlyWhenAllowed ==
    /\ [][waiter'.pc = "allowed" /\ waiter.pc # "allowed"
          => /\ waiter.pc = "waiting"
             /\ waiter'.polls = waiter.polls + 1
             /\ Listed(actionInfo[waiter.action], waiter.resource)]_vars
    /\ [][waiter'.posts > waiter.posts
          => /\ waiter.pc = "allowed" /\ waiter.posts = 0 /\ waiter'.posts = 1
             /\ waiter'.action = waiter.action
             /\ waiter'.resource = waiter.resource]_vars
    /\ [](waiter.err.kind \in {"fetch", "timeout"} => waiter.posts = 0)

C23_PostedAfterLaterPoll ==
    /\ waiter.pc = "returned" /\ waiter.action = PostDetach
    /\ waiter.posts = 1 /\ waiter.polls > 1
    /\ ~Listed(actionInfo[PostDetach], waiter.resource)
    /\ Listed(actionInfo[PostAttach], waiter.resource)

\* C24: WaitForAllowed ends after at most 30 polls: a poll whose read fails
\* ends it with the fetch error, a poll that lists the resource ends it with
\* success, any other poll is followed by the next one, and when 30 polls
\* have not listed the resource it ends with a timeout error that names the
\* resource and the ActionInfo polled.
C24_WaiterTerminates ==
    /\ [](waiter.polls <= nodeActionAttempts)
    /\ [][waiter'.polls = waiter.polls + 1
          => LET info == actionInfo[waiter.action]
             IN IF info.err
                THEN /\ waiter'.pc = "returned"
                     /\ waiter'.err = WaitError("fetch", "", RedfishActionInfo(waiter.action))
                ELSE IF Listed(info, waiter.resource)
                THEN waiter'.pc = "allowed" /\ waiter'.err = NoError
                ELSE waiter'.pc = "waiting" /\ waiter'.err = NoError]_vars
    /\ [][waiter'.err.kind = "timeout" /\ waiter.err.kind # "timeout"
          => /\ waiter.polls = nodeActionAttempts
             /\ waiter'.polls = nodeActionAttempts
             /\ waiter'.err.resource = waiter.resource
             /\ waiter'.err.actionInfo = RedfishActionInfo(waiter.action)]_vars
    /\ (waiter.pc = "waiting") ~> (waiter.pc \in {"allowed", "returned"})

C24_TimedOut ==
    /\ waiter.pc = "returned" /\ waiter.err.kind = "timeout"
    /\ waiter.polls = nodeActionAttempts

----------------------------------------------------------------------------
(* Properties of ListVolumes, checked under SpecList *)

\* the names of S in ascending order
Ascending(S) ==
    CHOOSE q \in [1..Cardinality(S) -> S] :
        \A i, j \in 1..Cardinality(S) : i < j => NameLess(q[i], q[j])

\* C5: the entries of a ListVolumes reply are in ascending order of volume name;
\* and for a client that asks for pages of m > 0 entries and follows the tokens
\* while the registry (of N volumes) stays as it is, no page fails, the first page
\* has m entries and a token when m < N, the pages put together are always the
\* first so many volumes in name order, and once the token is empty they are all N.
C5_ListSortedAndPaged ==
    /\ (last.op = "ListVolumes" /\ last.code = OK)
       => \A i, j \in 1..Len(last.resp.Entries) :
              i < j => NameLess(last.resp.Entries[i].VolumeContext,
                                 last.resp.Entries[j].VolumeContext)
    /\ pager.state # "failed"
    /\ pager.state = "paging"
       => LET N == Cardinality(DOMAIN volumes)
              all == Ascending(DOMAIN volumes)
          IN /\ pager.max < N => (pager.firstLen = pager.max /\ pager.firstToken # <<>>)
             /\ Len(pager.got) <= N
             /\ \A i \in 1..Len(pager.got) : pager.got[i] = volumes[all[i]].CSIVolume
             /\ pager.token = <<>> => Len(pager.got) = N
             /\ pager.token # <<>> => Len(pager.got) = pager.pages * pager.max

\* three volumes, whose ids are not in the order of their names, have been listed
\* one to a page
C5_AllPagesRead ==
    /\ pager.state = "paging"
    /\ pager.max = 1
    /\ pager.token = <<>>
    /\ Len(pager.got) = 3
    /\ pager.pages = 3
    /\ IdIndex(pager.got[1].VolumeId) > IdIndex(pager.got[2].VolumeId)

\* C20: a ListVolumes whose starting token exceeds the number of registered
\* volumes answers Aborted; when the entries from the starting token on number
\* at most MaxEntries, or MaxEntries is 0, the page holds all of them and the
\* next token is empty; a next token that is not empty is the starting token
\* plus the number of entries of the page.
C20_PageSizeAndToken ==
    last.op = "ListVolumes" =>
        LET tok == IF last.req.StartingToken = <<>> THEN [err |-> FALSE, val |-> 0]
                   ELSE Atoi(last.req.StartingToken)
            numVols == Cardinality(DOMAIN volumes)
            remaining == IF tok.val < 0 THEN numVols ELSE numVols - tok.val
            max == last.req.MaxEntries
        IN ~tok.err =>
              /\ tok.val > numVols => last.code = Aborted
              /\ last.code = OK =>
                    /\ (max = 0 \/ (max > 0 /\ remaining <= max)) =>
                           /\ Len(last.resp.Entries) = remaining
                           /\ last.resp.NextToken = <<>>
                    /\ last.resp.NextToken # <<>> =>
                           /\ ~Atoi(last.resp.NextToken).err
                           /\ Atoi(last.resp.NextToken).val
                                  = tok.val + Len(last.resp.Entries)

====
